---- MODULE Spec2Model ----
(***************************************************************************)
(* Heisenbase: retrograde solver (table_builder.rs, score.rs), WDL         *)
(* compression (compression.rs), table file (wdl_file.rs), position        *)
(* indexer (position_indexer.rs) and material key (material_key/mod.rs,    *)
(* material_key/pawn_structure.rs).                                        *)
(*                                                                         *)
(* The chess rule engine (shakmaty) is outside the repository.  The solver *)
(* is modelled twice: over a finite move graph, where for every table      *)
(* index the graph says what index_to_position / is_checkmate /            *)
(* is_stalemate / legal_moves answer there, and over the position indexer  *)
(* with the rules of the pieces written out (check, legal moves, mate,     *)
(* stalemate, insufficient material) for tables of kings, a queen, a rook  *)
(* and a pawn.                                                             *)
(***************************************************************************)
EXTENDS Integers, Sequences, FiniteSets, TLC

VARIABLES
    graph,      \* solver: what the rule engine answers for every index
    order,      \* solver: the order in which a sweep visits the indices
    positions,  \* solver: TableBuilder.positions
    it,         \* solver: loop counter of solve()
    updates,    \* solver: result of the last step
    data_dir,   \* table builder: what reading each child's .hbt file gives
    child_tables,           \* table builder: TableBuilder.child_tables
    loaded_child_tables,    \* table builder: TableBuilder.loaded_child_tables
    missing_child_tables,   \* table builder: TableBuilder.missing_child_tables
    pc,         \* control position of the running operation
    values,     \* compression: the table handed to compress_wdl
    data,       \* compression: the CompressedWdl
    output,     \* compression: what decompress_wdl returns
    key,        \* material key: the MaterialKey at hand
    text,       \* material key: what Display wrote
    result,     \* what the last call on the key, the index or the file returned
    index,      \* position indexer: the index handed to index_to_position
    file        \* table file: the bytes of the file

builderVars ==
    <<data_dir, child_tables, loaded_child_tables, missing_child_tables>>

solverVars == <<graph, order, positions, it, updates, builderVars>>

codecVars == <<values, data, output>>

keyVars == <<key, text, result, index, file>>

vars ==
    <<graph, order, positions, it, updates, pc, values, data, output,
      key, text, result, index, file, data_dir, child_tables,
      loaded_child_tables, missing_child_tables>>

\* the state of a subsystem that is not running
BuilderIdle ==
    /\ data_dir = <<>>
    /\ child_tables = <<>>
    /\ loaded_child_tables = {}
    /\ missing_child_tables = {}

SolverIdle ==
    /\ graph = <<>>
    /\ order = <<>>
    /\ positions = <<>>
    /\ it = 0
    /\ updates = 0
    /\ BuilderIdle

\* Option::None of a node link or a node symbol
None == -1

\* a CompressedWdl
CompressedWdl(base, pairs, lens, stream, bits, orig) ==
    [base_symbols |-> base, sym_pairs |-> pairs, code_lens |-> lens,
     bitstream |-> stream, bit_len |-> bits, orig_len |-> orig]

NoData == CompressedWdl(0, <<>>, <<>>, <<>>, 0, 0)

\* what a call returns: its value, or a panic
Returned(v) == [ok |-> TRUE, values |-> v]

Panicked == [ok |-> FALSE, values |-> <<>>]

CodecIdle ==
    /\ values = <<>>
    /\ data = NoData
    /\ output = Panicked

KeyIdle ==
    /\ key = <<>>
    /\ text = <<>>
    /\ result = <<>>
    /\ index = 0
    /\ file = <<>>

(***************************************************************************)
(* Bounds of the model.                                                    *)
(***************************************************************************)
\* number of table indices (positions.len()) of the modelled tables
NumIndices == 2

Indices == 0 .. (NumIndices - 1)

(***************************************************************************)
(* score.rs: DtzScore                                                      *)
(***************************************************************************)
IMMEDIATE_WIN == 99

IMMEDIATE_LOSS == -100

DRAW_SCORE == 0

is_win(x) == x > 0

is_loss(x) == x < 0

score_add_half_move_WinsOnly(x) == IF x > 0 THEN x - 1 ELSE x

score_add_half_move(x) ==
    IF x > 0 THEN x - 1
    ELSE IF x < 0 THEN x + 1
    ELSE x

IntMax(a, b) == IF a >= b THEN a ELSE b

(***************************************************************************)
(* score.rs: DtzScoreRange                                                 *)
(***************************************************************************)
Range(lo, hi) == [min |-> lo, max |-> hi]

unknown == Range(IMMEDIATE_LOSS, IMMEDIATE_WIN)

illegal == Range(IMMEDIATE_WIN, IMMEDIATE_LOSS)

checkmate == Range(IMMEDIATE_LOSS, IMMEDIATE_LOSS)

draw == Range(DRAW_SCORE, DRAW_SCORE)

is_illegal(s) == is_win(s.min) /\ is_loss(s.max)

is_certain(s) == s.min = s.max \/ is_illegal(s)

flip_NoNegation(s) == Range(s.min, s.max)

flip(s) == Range(-s.max, -s.min)

add_half_move(s) ==
    IF is_illegal(s) THEN s
    ELSE Range(score_add_half_move(s.min), score_add_half_move(s.max))

max(a, b) == Range(IntMax(a.min, b.min), IntMax(a.max, b.max))

(***************************************************************************)
(* wdl_score_range.rs: WdlScoreRange discriminants                         *)
(***************************************************************************)
Unknown == 0

WinOrDraw == 1

DrawOrLoss == 2

Win == 3

Draw == 4

Loss == 5

IllegalPosition == 6

WdlValues == {Unknown, WinOrDraw, DrawOrLoss, Win, Draw, Loss, IllegalPosition}

Sign(x) == IF x > 0 THEN 1 ELSE IF x < 0 THEN -1 ELSE 0

\* the two sign combinations on which the projection panics
ProjectionPanic == 7

\* the projection that tests min > 0 and max < 0 first and knows no Illegal
WdlFromDtz_MinFirst(s) ==
    IF s.min > 0 THEN Win
    ELSE IF s.max < 0 THEN Loss
    ELSE IF s.min = 0 /\ s.max = 0 THEN Draw
    ELSE IF s.min >= 0 /\ s.max > 0 THEN WinOrDraw
    ELSE IF s.min < 0 /\ s.max = 0 THEN DrawOrLoss
    ELSE Unknown

\* score.rs: impl From<DtzScoreRange> for WdlScoreRange
WdlFromDtz(s) ==
    LET a == Sign(s.min)
        b == Sign(s.max)
    IN  CASE a = 1 /\ b = -1 -> IllegalPosition
          [] a = 1 /\ b = 1 -> Win
          [] a = 1 /\ b = 0 -> ProjectionPanic
          [] a = 0 /\ b = 1 -> WinOrDraw
          [] a = 0 /\ b = 0 -> Draw
          [] a = 0 /\ b = -1 -> ProjectionPanic
          [] a = -1 /\ b = 1 -> Unknown
          [] a = -1 /\ b = 0 -> DrawOrLoss
          [] a = -1 /\ b = -1 -> Loss

\* score.rs: impl From<WdlScoreRange> for DtzScoreRange
DtzFromWdl(w) ==
    CASE w = Unknown -> unknown
      [] w = WinOrDraw -> Range(DRAW_SCORE, IMMEDIATE_WIN)
      [] w = DrawOrLoss -> Range(IMMEDIATE_LOSS, DRAW_SCORE)
      [] w = Win -> Range(IMMEDIATE_WIN, IMMEDIATE_WIN)
      [] w = Draw -> Range(DRAW_SCORE, DRAW_SCORE)
      [] w = Loss -> Range(IMMEDIATE_LOSS, IMMEDIATE_LOSS)
      [] w = IllegalPosition -> illegal

(***************************************************************************)
(* The move graph: the answers of the rule engine and of the indexers.     *)
(*                                                                         *)
(* kind   "invalid"    index_to_position fails with InvalidPosition        *)
(*        "checkmate"  position.is_checkmate()                             *)
(*        "stalemate"  position.is_stalemate() or is_insufficient_material *)
(*        "normal"     legal_moves() is not empty                          *)
(* quiet  the indices position_to_index gives for the positions after the  *)
(*        moves that are neither captures nor promotions                   *)
(* caps   the capture and promotion moves, each by what evaluate_move      *)
(*        finds for the position after the move                            *)
(***************************************************************************)
\* what a capture or promotion leads to: a terminal position, a position of a
\* loaded child table (with the table's entry there), or a position whose
\* child table is not loaded
CaptureMoves ==
    {[child |-> c, wdl |-> Unknown] : c \in {"checkmate", "draw", "missing"}}
    \cup {[child |-> "table", wdl |-> w] : w \in WdlValues \ {IllegalPosition}}

\* the side to move is the lowest digit of the index, and a move passes the
\* turn: a quiet move from index i leads to an index of the other parity
OtherTurn(i) == {j \in Indices : j % 2 # i % 2}

Terminal(k) == [kind |-> k, quiet |-> {}, caps |-> {}]

NodesAt(i) ==
    {Terminal(k) : k \in {"invalid", "checkmate", "stalemate"}}
    \cup {[kind |-> "normal", quiet |-> q, caps |-> c] :
            q \in SUBSET OtherTurn(i),
            c \in {{}} \cup {{m} : m \in CaptureMoves}}

WellFormed(g) ==
    \A i \in Indices :
        /\ g[i] \in NodesAt(i)
        /\ g[i].kind = "normal" => (g[i].quiet # {} \/ g[i].caps # {})
        \* a move from a legal position leads to a legal position
        /\ \A j \in g[i].quiet : g[j].kind # "invalid"

Graphs == {g \in [Indices -> UNION {NodesAt(i) : i \in Indices}] : WellFormed(g)}

(***************************************************************************)
(* table_builder.rs: TableBuilder                                          *)
(***************************************************************************)
MAX_STEPS == 101

\* evaluate_move for a move that is neither a capture nor a promotion:
\* the score stored at the child's index, one half move later
evaluate_quiet_NoHalfMove(pos, j) == pos[j]

evaluate_quiet(pos, j) == add_half_move(pos[j])

\* evaluate_move for a capture or a promotion
evaluate_capture(m) ==
    CASE m.child = "checkmate" -> checkmate
      [] m.child = "draw" -> draw
      [] m.child = "table" -> DtzFromWdl(m.wdl)
      [] m.child = "missing" -> unknown

\* the scores of all legal moves of index i, each flipped to the mover
MoveScores(g, pos, i) ==
    {flip(evaluate_quiet(pos, j)) : j \in g[i].quiet}
    \cup {flip(evaluate_capture(m)) : m \in g[i].caps}

\* .reduce(|a, b| a.max(&b)) over a non-empty set of move scores
RECURSIVE ReduceMax(_)
ReduceMax(S) ==
    LET s == CHOOSE x \in S : TRUE
    IN  IF S = {s} THEN s ELSE max(s, ReduceMax(S \ {s}))

\* the body of the loop of step_internal for one index: the new score array
\* and whether an update was counted
visit(g, pos, i) ==
    LET old_score == pos[i]
    IN  IF is_illegal(old_score) \/ is_certain(old_score)
        THEN [positions |-> pos, updated |-> 0]
        ELSE CASE g[i].kind = "invalid" ->
                    [positions |-> [pos EXCEPT ![i] = illegal], updated |-> 1]
               [] g[i].kind = "checkmate" ->
                    [positions |-> [pos EXCEPT ![i] = checkmate], updated |-> 1]
               [] g[i].kind = "stalemate" ->
                    [positions |-> [pos EXCEPT ![i] = draw], updated |-> 1]
               [] g[i].kind = "normal" ->
                    LET new_score == ReduceMax(MoveScores(g, pos, i))
                    IN  IF new_score # old_score
                        THEN [positions |-> [pos EXCEPT ![i] = new_score],
                              updated |-> 1]
                        ELSE [positions |-> pos, updated |-> 0]

\* step_internal: the indices are visited one after the other, each visit
\* writing into the same array the next visit reads
RECURSIVE sweep(_, _, _, _, _)
sweep(g, pos, ord, k, upd) ==
    IF k > Len(ord) THEN [positions |-> pos, updates |-> upd]
    ELSE LET r == visit(g, pos, ord[k])
         IN  sweep(g, r.positions, ord, k + 1, upd + r.updated)

\* a step that writes into a fresh array of Unknown and reads the old one:
\* the slots it skips are not copied
step_internal_FreshBuffer(g, pos, ord) ==
    [positions |-> [i \in DOMAIN pos |->
                       IF is_certain(pos[i]) THEN unknown
                       ELSE visit(g, pos, i).positions[i]],
     updates |-> Cardinality({i \in DOMAIN pos : visit(g, pos, i).updated = 1})]

step_internal(g, pos, ord) == sweep(g, pos, ord, 1, 0)

\* for pos_index in 0..self.positions.len()
Ascending == [k \in 1 .. NumIndices |-> k - 1]

\* solve() as a function of the move graph and the visiting order: the loop
\* of steps from iteration n on
RECURSIVE solve_from(_, _, _, _)
solve_from(g, pos, ord, n) ==
    LET r == step_internal(g, pos, ord)
    IN  IF r.updates = 0 THEN [positions |-> r.positions, pc |-> "done"]
        ELSE IF n = MAX_STEPS - 1 THEN [positions |-> r.positions, pc |-> "panic"]
        ELSE solve_from(g, r.positions, ord, n + 1)

solve(g, ord) == solve_from(g, [i \in Indices |-> unknown], ord, 0)

(***************************************************************************)
(* The solver as a state machine: one action per iteration of solve().     *)
(***************************************************************************)
SolverInit(g, ord) ==
    /\ graph = g
    /\ order = ord
    /\ positions = [i \in Indices |-> unknown]
    /\ it = 0
    /\ updates = 0
    /\ pc = "solving"
    /\ BuilderIdle
    /\ CodecIdle
    /\ KeyIdle

Init == \E g \in Graphs : SolverInit(g, Ascending)

\* one iteration of the loop of solve(): a step, then the two exits
StepWith(ord) ==
    /\ pc = "solving"
    /\ LET r == step_internal(graph, positions, ord)
       IN  /\ positions' = r.positions
           /\ updates' = r.updates
           /\ IF r.updates = 0
              THEN pc' = "done" /\ it' = it
              ELSE IF it = MAX_STEPS - 1
                   THEN pc' = "panic" /\ it' = it
                   ELSE pc' = "solving" /\ it' = it + 1
    /\ UNCHANGED <<graph, order, builderVars>>
    /\ UNCHANGED <<codecVars, keyVars>>

Step == StepWith(Ascending)

Next == Step

Spec == Init /\ [][Next]_vars

(***************************************************************************)
(* The same solver with the sweep order left open: the sweeps of a solve   *)
(* visit the indices in some order (a schedule of the workers of a         *)
(* parallel sweep, taken one index at a time).                             *)
(***************************************************************************)
Orders ==
    {o \in [1 .. NumIndices -> Indices] : \A i \in Indices : \E k \in 1 .. NumIndices : o[k] = i}

InitSchedule == \E g \in Graphs : \E ord \in Orders : SolverInit(g, ord)

ScheduledStep == StepWith(order)

NextSchedule == ScheduledStep

SpecSchedule == InitSchedule /\ [][NextSchedule]_vars

(***************************************************************************)
(* The outcome of the game on the move graph, for the side to move.        *)
(***************************************************************************)
\* the outcomes a child position can have for its side to move, given what
\* is known of it
ChildOutcomes(m) ==
    CASE m.child = "checkmate" -> {-1}
      [] m.child = "draw" -> {0}
      [] m.child = "missing" -> {-1, 0, 1}
      [] m.child = "table" ->
            CASE m.wdl = Win -> {1}
              [] m.wdl = Draw -> {0}
              [] m.wdl = Loss -> {-1}
              [] m.wdl = WinOrDraw -> {0, 1}
              [] m.wdl = DrawOrLoss -> {-1, 0}
              [] m.wdl = Unknown -> {-1, 0, 1}

CaptureSites(g) == {<<i, m>> : i \in Indices, m \in CaptureMoves} \cap
                   {s \in Indices \X CaptureMoves : s[2] \in g[s[1]].caps}

\* one true outcome for every child position the table's moves lead to
Resolutions(g) ==
    {r \in [CaptureSites(g) -> {-1, 0, 1}] :
        \A s \in CaptureSites(g) : r[s] \in ChildOutcomes(s[2])}

\* backward induction: W and L are the indices known to be won and lost
RECURSIVE Retrograde(_, _, _, _, _)
Retrograde(g, r, W, L, n) ==
    IF n = 0 THEN [won |-> W, lost |-> L]
    ELSE LET W2 == W \cup {i \in Indices :
                        /\ g[i].kind = "normal"
                        /\ \/ \E j \in g[i].quiet : j \in L
                           \/ \E m \in g[i].caps : r[<<i, m>>] = -1}
             L2 == L \cup {i \in Indices :
                        /\ g[i].kind = "normal"
                        /\ \A j \in g[i].quiet : j \in W
                        /\ \A m \in g[i].caps : r[<<i, m>>] = 1}
         IN  Retrograde(g, r, W2, L2, n - 1)

TrueOutcome(g, r, i) ==
    LET t == Retrograde(g, r, {}, {j \in Indices : g[j].kind = "checkmate"},
                        NumIndices + 1)
    IN  IF i \in t.won THEN 1 ELSE IF i \in t.lost THEN -1 ELSE 0

\* the WDL range w contains the outcome o
WdlContains(w, o) ==
    CASE w = Win -> o = 1
      [] w = Draw -> o = 0
      [] w = Loss -> o = -1
      [] w = WinOrDraw -> o >= 0
      [] w = DrawOrLoss -> o <= 0
      [] w = Unknown -> TRUE
      [] OTHER -> FALSE

StartOfIterationStep(g, pos) == [i \in Indices |-> visit(g, pos, i).positions[i]]

C9_StepReadsOnlyStartOfIteration ==
    [][Step => positions' = StartOfIterationStep(graph, positions)]_vars

BASE_SYMBOLS == 7

\* first index after the run of code c that starts at index i
RunEnd(seq, i, c) ==
    CHOOSE j \in i .. (Len(seq) + 1) :
        /\ \A k \in i .. (j - 1) : seq[k] = c
        /\ (j = Len(seq) + 1 \/ seq[j] # c)

\* length of the run of value l that ends right before index start
LeftLen(seq, start, l) ==
    CHOOSE n \in 0 .. (start - 1) :
        /\ \A k \in (start - n) .. (start - 1) : seq[k] = l
        /\ (n = start - 1 \/ seq[start - n - 1] # l)

\* length of the run of value r that starts at index end
RightLen(seq, end, r) == RunEnd(seq, end, r) - end

\* the value a run of illegal codes seq[start .. end-1] is rewritten to
Replacement(seq, start, end) ==
    LET hasLeft == start > 1
        hasRight == end <= Len(seq)
    IN  IF hasLeft /\ hasRight
        THEN LET l == seq[start - 1]
                 r == seq[end]
             IN  IF l = r THEN l
                 ELSE IF LeftLen(seq, start, l) >= RightLen(seq, end, r) THEN l ELSE r
        ELSE IF hasLeft THEN seq[start - 1]
        ELSE IF hasRight THEN seq[end]
        ELSE Draw

RECURSIVE rewrite_from(_, _, _)
rewrite_from(seq, i, illegal_code) ==
    IF i > Len(seq) THEN seq
    ELSE IF seq[i] # illegal_code THEN rewrite_from(seq, i + 1, illegal_code)
    ELSE LET start == i
             end == RunEnd(seq, i, illegal_code)
             replacement == Replacement(seq, start, end)
             rewritten == [k \in 1 .. Len(seq) |->
                              IF k >= start /\ k < end THEN replacement ELSE seq[k]]
         IN  rewrite_from(rewritten, end, illegal_code)

rewrite_illegal_runs(seq, illegal_code) == rewrite_from(seq, 1, illegal_code)

(***************************************************************************)
(* compression.rs: pair substitution                                       *)
(***************************************************************************)
\* the windows(2) of the sequence
Pairs(seq) == {<<seq[i], seq[i + 1]>> : i \in 1 .. (Len(seq) - 1)}

PairCount(seq, p) ==
    Cardinality({i \in 1 .. (Len(seq) - 1) : <<seq[i], seq[i + 1]>> = p})

\* the pairs max_by_key can return: the iteration order of the HashMap
\* decides among the pairs of the highest count
MostFrequentPairs(seq) ==
    {p \in Pairs(seq) : \A q \in Pairs(seq) : PairCount(seq, q) <= PairCount(seq, p)}

\* left-to-right replacement of the non-overlapping occurrences of the pair
RECURSIVE replace_pair(_, _, _, _)
replace_pair(seq, i, pair, new_sym) ==
    IF i > Len(seq) THEN <<>>
    ELSE IF i + 1 <= Len(seq) /\ <<seq[i], seq[i + 1]>> = pair
         THEN <<new_sym>> \o replace_pair(seq, i + 2, pair, new_sym)
         ELSE <<seq[i]>> \o replace_pair(seq, i + 1, pair, new_sym)

\* every result the loop of pair_substitution can end with
RECURSIVE pair_substitution_from(_, _, _)
pair_substitution_from(seq, sym_pairs, next_sym) ==
    IF Pairs(seq) = {} THEN {[seq |-> seq, sym_pairs |-> sym_pairs]}
    ELSE UNION {
           IF PairCount(seq, p) <= 1
           THEN {[seq |-> seq, sym_pairs |-> sym_pairs]}
           ELSE pair_substitution_from(replace_pair(seq, 1, p, next_sym),
                                       Append(sym_pairs, p), next_sym + 1)
           : p \in MostFrequentPairs(seq)}

pair_substitution(seq, base) == pair_substitution_from(seq, <<>>, base)

(***************************************************************************)
(* compression.rs: Huffman code lengths and canonical codes                *)
(***************************************************************************)
Pow2(n) == 2 ^ n

\* freqs[s]
Freq(seq, sym) == Cardinality({i \in 1 .. Len(seq) : seq[i] = sym})

HuffNode(l, r, sym) == [left |-> l, right |-> r, symbol |-> sym]

\* the leaves, one per symbol that occurs, in ascending symbol order;
\* node k of the vector is element k + 1 of the sequence
RECURSIVE leaves_from(_, _, _)
leaves_from(seq, sym, symbols_count) ==
    IF sym >= symbols_count THEN <<>>
    ELSE (IF Freq(seq, sym) > 0 THEN <<HuffNode(None, None, sym)>> ELSE <<>>)
         \o leaves_from(seq, sym + 1, symbols_count)

\* BinaryHeap<Reverse<(freq, node)>>::pop
HeapMin(heap) ==
    CHOOSE e \in heap :
        \A f \in heap : e[1] < f[1] \/ (e[1] = f[1] /\ e[2] <= f[2])

RECURSIVE huffman_merge(_, _)
huffman_merge(nodes, heap) ==
    IF Cardinality(heap) <= 1 THEN [nodes |-> nodes, root |-> HeapMin(heap)[2]]
    ELSE LET a == HeapMin(heap)
             b == HeapMin(heap \ {a})
         IN  huffman_merge(Append(nodes, HuffNode(a[2], b[2], None)),
                           (heap \ {a, b}) \cup {<<a[1] + b[1], Len(nodes)>>})

RECURSIVE assign_lengths(_, _, _, _)
assign_lengths(nodes, idx, depth, lengths) ==
    LET node == nodes[idx + 1]
    IN  IF node.symbol # None
        THEN [lengths EXCEPT ![node.symbol + 1] = IF depth = 0 THEN 1 ELSE depth]
        ELSE assign_lengths(nodes, node.right, depth + 1,
                            assign_lengths(nodes, node.left, depth + 1, lengths))

\* code_lens[s] is element s + 1 of the result
build_huffman_code_lengths(seq, symbols_count) ==
    LET leaves == leaves_from(seq, 0, symbols_count)
        heap == {<<Freq(seq, leaves[k].symbol), k - 1>> : k \in 1 .. Len(leaves)}
        zeros == [s \in 1 .. symbols_count |-> 0]
    IN  IF heap = {} THEN zeros
        ELSE LET t == huffman_merge(leaves, heap)
             IN  assign_lengths(t.nodes, t.root, 0, zeros)

\* the entries in the order of sort_by(length, then symbol), taken one by one
RECURSIVE codes_from(_, _, _, _, _)
codes_from(code_lens, entries, code, prev_len, codes) ==
    IF entries = {} THEN codes
    ELSE LET sym == CHOOSE e \in entries :
                        \A f \in entries :
                            \/ code_lens[e + 1] < code_lens[f + 1]
                            \/ (code_lens[e + 1] = code_lens[f + 1] /\ e <= f)
             len == code_lens[sym + 1]
             shifted == code * Pow2(len - prev_len)
         IN  codes_from(code_lens, entries \ {sym}, shifted + 1, len,
                        [codes EXCEPT ![sym + 1] = [code |-> shifted, len |-> len]])

build_codes_from_lengths(code_lens) ==
    codes_from(code_lens,
               {s \in 0 .. (Len(code_lens) - 1) : code_lens[s + 1] > 0},
               0, 0,
               [s \in 1 .. Len(code_lens) |-> [code |-> 0, len |-> 0]])

(***************************************************************************)
(* compression.rs: compress_wdl                                            *)
(***************************************************************************)
\* (code >> i) & 1
BitOf(code, i) == (code \div Pow2(i)) % 2

\* the bits of a code, most significant first
CodeBits(c) == [k \in 1 .. c.len |-> BitOf(c.code, c.len - k)]

RECURSIVE encode_from(_, _, _)
encode_from(seq, codes, i) ==
    IF i > Len(seq) THEN <<>>
    ELSE CodeBits(codes[seq[i] + 1]) \o encode_from(seq, codes, i + 1)

\* byte b (from 0) of the packed bits: bit i goes to 1 << (7 - i % 8)
RECURSIVE pack_byte(_, _, _)
pack_byte(bits, b, k) ==
    IF k > 7 THEN 0
    ELSE (IF 8 * b + k + 1 <= Len(bits) /\ bits[8 * b + k + 1] = 1
          THEN Pow2(7 - k) ELSE 0)
         + pack_byte(bits, b, k + 1)

pack_bits(bits) == [b \in 1 .. ((Len(bits) + 7) \div 8) |-> pack_byte(bits, b - 1, 0)]

\* what compress_wdl builds from one result of the pair substitution
encode_substituted(vals, sub) ==
    LET symbols_count == BASE_SYMBOLS + Len(sub.sym_pairs)
        code_lens == build_huffman_code_lengths(sub.seq, symbols_count)
        codes == build_codes_from_lengths(code_lens)
        bits == encode_from(sub.seq, codes, 1)
    IN  CompressedWdl(BASE_SYMBOLS, sub.sym_pairs, code_lens, pack_bits(bits),
                      Len(bits), Len(vals))

\* every CompressedWdl compress_wdl can return for the values
compress_wdl(vals) ==
    {encode_substituted(vals, sub) :
        sub \in pair_substitution(rewrite_illegal_runs(vals, IllegalPosition), BASE_SYMBOLS)}

(***************************************************************************)
(* compression.rs: decompress_wdl                                          *)
(***************************************************************************)
\* the walk of one code from node idx, with i bits left to insert
RECURSIVE insert_code(_, _, _, _, _)
insert_code(nodes, idx, code, i, sym) ==
    IF i = 0 THEN [nodes EXCEPT ![idx + 1].symbol = sym]
    ELSE LET bit == BitOf(code, i - 1)
             next == IF bit = 0 THEN nodes[idx + 1].left ELSE nodes[idx + 1].right
             new_idx == Len(nodes)
             linked == IF bit = 0
                       THEN [nodes EXCEPT ![idx + 1].left = new_idx]
                       ELSE [nodes EXCEPT ![idx + 1].right = new_idx]
         IN  IF next # None
             THEN insert_code(nodes, next, code, i - 1, sym)
             ELSE insert_code(Append(linked, HuffNode(None, None, None)),
                              new_idx, code, i - 1, sym)

RECURSIVE tree_from(_, _, _)
tree_from(codes, sym, nodes) ==
    IF sym >= Len(codes) THEN nodes
    ELSE IF codes[sym + 1].len = 0 THEN tree_from(codes, sym + 1, nodes)
    ELSE tree_from(codes, sym + 1,
                   insert_code(nodes, 0, codes[sym + 1].code, codes[sym + 1].len, sym))

build_decoding_tree(codes) == tree_from(codes, 0, <<HuffNode(None, None, None)>>)

\* the loop of decode_bitstream from bit bit_index on, at node idx
RECURSIVE decode_from(_, _, _, _, _, _, _)
decode_from(bitstream, bit_len, nodes, orig_len, bit_index, idx, seq) ==
    IF bit_index >= bit_len THEN Returned(seq)
    ELSE IF bit_index \div 8 >= Len(bitstream) THEN Panicked
    ELSE LET byte == bitstream[bit_index \div 8 + 1]
             bit == BitOf(byte, 7 - (bit_index % 8))
             child == IF bit = 0 THEN nodes[idx + 1].left ELSE nodes[idx + 1].right
         IN  IF child = None THEN Panicked
             ELSE IF nodes[child + 1].symbol # None
                  THEN LET pushed == Append(seq, nodes[child + 1].symbol)
                       IN  IF Len(pushed) >= orig_len THEN Returned(pushed)
                           ELSE decode_from(bitstream, bit_len, nodes, orig_len,
                                            bit_index + 1, 0, pushed)
                  ELSE decode_from(bitstream, bit_len, nodes, orig_len,
                                   bit_index + 1, child, seq)

decode_bitstream(bitstream, bit_len, nodes, orig_len) ==
    decode_from(bitstream, bit_len, nodes, orig_len, 0, 0, <<>>)

RECURSIVE expand_symbol(_, _, _)
expand_symbol(sym, sym_pairs, base) ==
    IF sym < base THEN <<sym>>
    ELSE expand_symbol(sym_pairs[sym - base + 1][1], sym_pairs, base)
         \o expand_symbol(sym_pairs[sym - base + 1][2], sym_pairs, base)

RECURSIVE expand_from(_, _, _, _)
expand_from(seq, i, sym_pairs, base) ==
    IF i > Len(seq) THEN <<>>
    ELSE expand_symbol(seq[i], sym_pairs, base) \o expand_from(seq, i + 1, sym_pairs, base)

decompress_wdl(d) ==
    LET codes == build_codes_from_lengths(d.code_lens)
        nodes == build_decoding_tree(codes)
        decoded == decode_bitstream(d.bitstream, d.bit_len, nodes, d.orig_len)
    IN  IF ~decoded.ok THEN Panicked
        ELSE LET expanded == expand_from(decoded.values, 1, d.sym_pairs, d.base_symbols)
             IN  IF Len(expanded) # d.orig_len THEN Panicked
                 ELSE IF \E k \in 1 .. Len(expanded) : expanded[k] \notin WdlValues
                      THEN Panicked
                      ELSE Returned(expanded)

(***************************************************************************)
(* Compression as a state machine: a table is compressed, then the         *)
(* CompressedWdl is decompressed.                                          *)
(***************************************************************************)
\* longest table of the compression runs
MaxTableLen == 5

RECURSIVE SeqsUpTo(_, _)
SeqsUpTo(S, n) ==
    IF n = 0 THEN {<<>>}
    ELSE LET shorter == SeqsUpTo(S, n - 1)
         IN  shorter \cup {Append(q, x) : q \in {r \in shorter : Len(r) = n - 1}, x \in S}

Tables == SeqsUpTo(WdlValues, MaxTableLen)

InitCompress ==
    /\ values \in Tables
    /\ data = NoData
    /\ output = Panicked
    /\ pc = "table"
    /\ SolverIdle
    /\ KeyIdle

Compress ==
    /\ pc = "table"
    /\ data' \in compress_wdl(values)
    /\ pc' = "compressed"
    /\ UNCHANGED <<values, output>>
    /\ UNCHANGED <<solverVars, keyVars>>

Decompress ==
    /\ pc = "compressed"
    /\ output' = decompress_wdl(data)
    /\ pc' = "decompressed"
    /\ UNCHANGED <<values, data>>
    /\ UNCHANGED <<solverVars, keyVars>>

NextCompress == Compress \/ Decompress

SpecCompress == InitCompress /\ [][NextCompress]_vars

(***************************************************************************)
(* Claims on the compression.                                              *)
(***************************************************************************)
\* C1: decompressing what compress_wdl returned gives back the table that
\* was compressed, element for element, for every table over the seven
\* values and every choice among the most frequent pairs.
C1_DecompressReturnsTheTable ==
    pc = "decompressed" => output = Returned(values)

(***************************************************************************)
(* material_key/hb_piece.rs, material_key/pawn_structure.rs: pieces,       *)
(* bitboards and pawn structures.  A square is rank * 8 + file (a1 = 0,    *)
(* h8 = 63); a Bitboard is the set of its squares.                         *)
(***************************************************************************)
\* HbPieceRole as usize
King == 0

Queen == 1

Rook == 2

LightBishop == 3

DarkBishop == 4

Knight == 5

\* HbPieceRole::ALL and HbPieceRole::CAPTURABLE, in their order
ALL == <<King, Queen, Rook, DarkBishop, LightBishop, Knight>>

CAPTURABLE == <<Queen, Rook, DarkBishop, LightBishop, Knight>>

\* Color as the index of counts
White == 0

Black == 1

FileOf(sq) == sq % 8

RankOf(sq) == sq \div 8

Bitboard_flip_vertical(bb) == {(7 - RankOf(sq)) * 8 + FileOf(sq) : sq \in bb}

Bitboard_flip_horizontal(bb) == {RankOf(sq) * 8 + (7 - FileOf(sq)) : sq \in bb}

\* Bitboard::shift(n): the squares moved by n, those leaving the board dropped
Bitboard_shift(bb, n) == {sq + n : sq \in bb} \cap (0 .. 63)

\* u64 order of two bitboards: the highest square in which they differ decides
Bitboard_less(a, b) ==
    /\ a # b
    /\ LET diff == (a \ b) \cup (b \ a)
       IN  (CHOOSE sq \in diff : \A other \in diff : other <= sq) \in b

PawnStructure(white_pawns, black_pawns) == [white |-> white_pawns, black |-> black_pawns]

occupied(ps) == ps.white \cup ps.black

is_symmetric_horizontal(ps) ==
    /\ ps.white = Bitboard_flip_horizontal(ps.white)
    /\ ps.black = Bitboard_flip_horizontal(ps.black)

flip_sides(ps) ==
    PawnStructure(Bitboard_flip_vertical(ps.black), Bitboard_flip_vertical(ps.white))

flip_horizontal(ps) ==
    PawnStructure(Bitboard_flip_horizontal(ps.white), Bitboard_flip_horizontal(ps.black))

\* impl Ord for PawnStructure
PawnStructure_less(a, b) ==
    IF a.white # b.white THEN Bitboard_less(a.white, b.white)
    ELSE Bitboard_less(a.black, b.black)

(***************************************************************************)
(* material_key/mod.rs: MaterialKey and its canonical form.  counts[c + 1] *)
(* [r + 1] is the count of role r of color c.                              *)
(***************************************************************************)
MaterialKey(counts, pawns) == [pawns |-> pawns, counts |-> counts]

\* lexicographic order of two arrays of the same length
Array_less(a, b) ==
    \E k \in 1 .. Len(a) : a[k] < b[k] /\ \A j \in 1 .. (k - 1) : a[j] = b[j]

\* derived Ord of MaterialKey: pawns, then counts
MaterialKey_less(a, b) ==
    IF a.pawns # b.pawns THEN PawnStructure_less(a.pawns, b.pawns)
    ELSE Array_less(a.counts[1] \o a.counts[2], b.counts[1] \o b.counts[2])

flatten_counts(counts) == counts[1] \o counts[2]

swapped_bishop_counts(counts) ==
    [c \in 1 .. 2 |->
        [counts[c] EXCEPT ![LightBishop + 1] = counts[c][DarkBishop + 1],
                          ![DarkBishop + 1] = counts[c][LightBishop + 1]]]

has_bishops(k) ==
    \E c \in 1 .. 2 : k.counts[c][LightBishop + 1] > 0 \/ k.counts[c][DarkBishop + 1] > 0

mirror_sides(k) == MaterialKey(<<k.counts[2], k.counts[1]>>, flip_sides(k.pawns))

mirror_left_to_right(k) ==
    MaterialKey(swapped_bishop_counts(k.counts), flip_horizontal(k.pawns))

strong_color_from_counts(counts) ==
    LET w == counts[1]
        b == counts[2]
        wb == w[LightBishop + 1] + w[DarkBishop + 1]
        bb == b[LightBishop + 1] + b[DarkBishop + 1]
    IN  IF w[Queen + 1] # b[Queen + 1]
        THEN (IF w[Queen + 1] > b[Queen + 1] THEN White ELSE Black)
        ELSE IF w[Rook + 1] # b[Rook + 1]
        THEN (IF w[Rook + 1] > b[Rook + 1] THEN White ELSE Black)
        ELSE IF wb # bb
        THEN (IF wb > bb THEN White ELSE Black)
        ELSE IF w[Knight + 1] # b[Knight + 1]
        THEN (IF w[Knight + 1] > b[Knight + 1] THEN White ELSE Black)
        ELSE White

should_swap_bishops(k) ==
    /\ has_bishops(k)
    /\ is_symmetric_horizontal(k.pawns)
    /\ Array_less(flatten_counts(swapped_bishop_counts(k.counts)), flatten_counts(k.counts))

canonicalize(k) ==
    LET white == k.pawns.white
        flipped == Bitboard_flip_vertical(k.pawns.black)
    IN  IF Bitboard_less(white, flipped) THEN mirror_sides(k)
        ELSE IF white # flipped THEN k
        ELSE LET strong == IF strong_color_from_counts(k.counts) = Black
                           THEN mirror_sides(k) ELSE k
             IN  IF should_swap_bishops(strong) THEN mirror_left_to_right(strong)
                 ELSE strong

\* MaterialKey::new
MaterialKey_new(counts, pawns) == canonicalize(MaterialKey(counts, pawns))

(***************************************************************************)
(* material_key/mod.rs: Display and from_string.  A string is the sequence *)
(* of its characters; Option is a sequence of at most one element.         *)
(***************************************************************************)
FileChars == <<"a", "b", "c", "d", "e", "f", "g", "h">>

RankChars == <<"1", "2", "3", "4", "5", "6", "7", "8">>

token_SwappedBishops(role) ==
    CASE role = King -> <<"K">>
      [] role = Queen -> <<"Q">>
      [] role = Rook -> <<"R">>
      [] role = DarkBishop -> <<"B", "l">>
      [] role = LightBishop -> <<"B", "d">>
      [] role = Knight -> <<"N">>

\* HbPieceRole::token
token(role) ==
    CASE role = King -> <<"K">>
      [] role = Queen -> <<"Q">>
      [] role = Rook -> <<"R">>
      [] role = DarkBishop -> <<"B", "d">>
      [] role = LightBishop -> <<"B", "l">>
      [] role = Knight -> <<"N">>

RECURSIVE Repeat(_, _)
Repeat(tok, n) == IF n = 0 THEN <<>> ELSE tok \o Repeat(tok, n - 1)

\* the squares of a bitboard as its iterator yields them, and their names
RECURSIVE SquareNames(_)
SquareNames(bb) ==
    IF bb = {} THEN <<>>
    ELSE LET sq == CHOOSE x \in bb : \A y \in bb : x <= y
         IN  <<FileChars[FileOf(sq) + 1], RankChars[RankOf(sq) + 1]>> \o SquareNames(bb \ {sq})

\* what Display writes for one color
SideString(counts, pawns) ==
    Repeat(token(King), counts[King + 1])
    \o Repeat(token(Queen), counts[Queen + 1])
    \o Repeat(token(Rook), counts[Rook + 1])
    \o Repeat(token(DarkBishop), counts[DarkBishop + 1])
    \o Repeat(token(LightBishop), counts[LightBishop + 1])
    \o Repeat(token(Knight), counts[Knight + 1])
    \o SquareNames(pawns)

to_string(k) ==
    SideString(k.counts[1], k.pawns.white) \o <<"v">> \o SideString(k.counts[2], k.pawns.black)

IndexIn(chars, c) == CHOOSE n \in 1 .. Len(chars) : chars[n] = c

\* push_pieces from byte i on; acc holds counts, pawns and occupied
RECURSIVE push_pieces(_, _, _, _)
push_pieces(acc, str, color_idx, i) ==
    LET bump(role, step) ==
            push_pieces([acc EXCEPT !.counts[color_idx + 1][role + 1] = @ + 1],
                        str, color_idx, i + step)
    IN  IF i > Len(str) THEN <<acc>>
        ELSE CASE str[i] = "K" -> bump(King, 1)
               [] str[i] = "Q" -> bump(Queen, 1)
               [] str[i] = "R" -> bump(Rook, 1)
               [] str[i] = "N" -> bump(Knight, 1)
               [] str[i] = "B" ->
                    IF i + 1 > Len(str) THEN <<>>
                    ELSE IF str[i + 1] = "l" THEN bump(LightBishop, 2)
                    ELSE IF str[i + 1] = "d" THEN bump(DarkBishop, 2)
                    ELSE <<>>
               [] \E n \in 1 .. 8 : FileChars[n] = str[i] ->
                    IF i + 1 > Len(str) THEN <<>>
                    ELSE IF ~\E n \in 1 .. 8 : RankChars[n] = str[i + 1] THEN <<>>
                    ELSE LET square == (IndexIn(RankChars, str[i + 1]) - 1) * 8
                                       + (IndexIn(FileChars, str[i]) - 1)
                         IN  IF square \in acc.occupied THEN <<>>
                             ELSE push_pieces(
                                    [acc EXCEPT !.pawns[color_idx + 1] = @ \cup {square},
                                                !.occupied = @ \cup {square}],
                                    str, color_idx, i + 2)
               [] OTHER -> <<>>

from_string(str) ==
    LET seps == {i \in 1 .. Len(str) : str[i] = "v"}
        zero == [r \in 1 .. Len(ALL) |-> 0]
        empty == [counts |-> <<zero, zero>>, pawns |-> <<{}, {}>>, occupied |-> {}]
    IN  IF Cardinality(seps) # 1 THEN <<>>
        ELSE LET at == CHOOSE i \in seps : TRUE
                 white == push_pieces(empty, SubSeq(str, 1, at - 1), White, 1)
             IN  IF white = <<>> THEN <<>>
                 ELSE LET black == push_pieces(white[1], SubSeq(str, at + 1, Len(str)),
                                               Black, 1)
                      IN  IF black = <<>> THEN <<>>
                          ELSE IF \E c \in 1 .. 2 : black[1].counts[c][King + 1] # 1
                               THEN <<>>
                               ELSE <<MaterialKey_new(
                                        black[1].counts,
                                        PawnStructure(black[1].pawns[1], black[1].pawns[2]))>>

(***************************************************************************)
(* material_key/pawn_structure.rs, material_key/mod.rs: child keys.  The   *)
(* vectors of children are modelled as the sets of their elements.         *)
(***************************************************************************)
\* FULL without BACKRANKS and without the seventh rank
PushRanks == 1 .. 5

\* one_sided_pushes: the moves of the white pawns of ps
can_be_moved_one_square(ps) ==
    {sq \in ps.white : RankOf(sq) \in PushRanks /\ sq \notin Bitboard_shift(ps.black, -8)}

can_be_moved_two_squares(ps) ==
    {sq \in ps.white : /\ RankOf(sq) = 1
                       /\ sq \notin Bitboard_shift(ps.black, -8)
                       /\ sq \notin Bitboard_shift(ps.black, -16)}

\* the child of a push of the white pawn on sq by 8 or by 16
pushed(ps, sq, by) == PawnStructure((ps.white \ {sq}) \cup {sq + by}, ps.black)

one_sided_pushes(ps) ==
    LET can_capture_left ==
            {sq \in ps.white : /\ RankOf(sq) \in PushRanks
                               /\ FileOf(sq) # 0
                               /\ sq \in Bitboard_shift(ps.black, -7)}
        can_capture_right ==
            {sq \in ps.white : /\ RankOf(sq) \in PushRanks
                               /\ FileOf(sq) # 7
                               /\ sq \in Bitboard_shift(ps.black, -9)}
        moved(sq, by) == (ps.white \ {sq}) \cup {sq + by}
    IN  {pushed(ps, sq, 8) : sq \in can_be_moved_one_square(ps)}
        \cup {pushed(ps, sq, 16) : sq \in can_be_moved_two_squares(ps)}
        \cup {PawnStructure(moved(sq, 9), ps.black \ {sq + 9}) : sq \in can_capture_right}
        \cup {PawnStructure(moved(sq, 7), ps.black \ {sq + 7}) : sq \in can_capture_left}

child_pawn_structures_no_piece_change(ps) ==
    {PawnStructure(ps.white \ {sq}, ps.black \ {sq}) : sq \in occupied(ps)}
    \cup one_sided_pushes(ps)
    \cup {flip_sides(child) : child \in one_sided_pushes(flip_sides(ps))}

child_pawn_structures_with_piece_capture(ps, color) ==
    LET from_color_perspective == IF color = White THEN ps ELSE flip_sides(ps)
        white == from_color_perspective.white
        black == from_color_perspective.black
        can_capture_left ==
            {sq \in white : /\ RankOf(sq) \in PushRanks
                            /\ FileOf(sq) # 0
                            /\ sq \notin Bitboard_shift(black, -7)}
        can_capture_right ==
            {sq \in white : /\ RankOf(sq) \in PushRanks
                            /\ FileOf(sq) # 7
                            /\ sq \notin Bitboard_shift(black, -9)}
    IN  {PawnStructure((white \ {sq}) \cup {sq + 9}, black) : sq \in can_capture_right}
        \cup {PawnStructure((white \ {sq}) \cup {sq + 7}, black) : sq \in can_capture_left}

child_pawn_structures_with_promotion(ps, color) ==
    LET from_color_perspective == IF color = White THEN ps ELSE flip_sides(ps)
    IN  {PawnStructure(from_color_perspective.white \ {sq}, from_color_perspective.black) :
            sq \in {x \in from_color_perspective.white : RankOf(x) = 6}}

\* counts after a piece of the role was added (by = 1) or captured (by = -1)
counts_NoChange(counts, color_idx, role, by) == counts

counts_with(counts, color_idx, role, by) ==
    [counts EXCEPT ![color_idx + 1][role + 1] = @ + by]

child_material_keys(k) ==
    LET roles == {CAPTURABLE[n] : n \in 1 .. Len(CAPTURABLE)}
        has(color_idx, role) == k.counts[color_idx + 1][role + 1] # 0
        piece_captures(color) ==
            {MaterialKey_new(counts_with(k.counts, 1 - color, role, -1), ps) :
                ps \in {k.pawns} \cup child_pawn_structures_with_piece_capture(k.pawns, color),
                role \in {r \in roles : has(1 - color, r)}}
        promotions(color) ==
            {MaterialKey_new(counts_with(k.counts, color, role, 1), ps) :
                ps \in child_pawn_structures_with_promotion(k.pawns, color),
                role \in {r \in roles : has(color, r)}}
        promotions_with_captures(color) ==
            {MaterialKey_new(
                counts_with(counts_with(k.counts, color, rr[1], 1), 1 - color, rr[2], -1), ps) :
                ps \in child_pawn_structures_with_promotion(k.pawns, color),
                rr \in {x \in roles \X roles : has(color, x[1]) /\ has(1 - color, x[2])}}
    IN  {MaterialKey_new(k.counts, ps) : ps \in child_pawn_structures_no_piece_change(k.pawns)}
        \cup UNION {piece_captures(color) \cup promotions(color)
                    \cup promotions_with_captures(color) : color \in {White, Black}}

(***************************************************************************)
(* The material key as a state machine: a key built by MaterialKey::new is *)
(* rendered and parsed back, its representations are canonicalized, or its *)
(* children are listed.                                                    *)
(***************************************************************************)
\* most non-king pieces of a key, both colors together
MaxPieces == 2

\* most pawns of a key, both colors together
MaxPawns == 2

\* the squares the pawns of the keys stand on: files a, b and h, ranks 2 to 7
KeyPawnSquares == {sq \in 0 .. 63 : FileOf(sq) \in {0, 1, 7} /\ RankOf(sq) \in 1 .. 6}

\* the number of pieces of one color, the king left out
PieceTotal(c) ==
    c[Queen + 1] + c[Rook + 1] + c[LightBishop + 1] + c[DarkBishop + 1] + c[Knight + 1]

\* the counts of one color: one king and at most n other pieces
SideCounts(n) ==
    {c \in [1 .. Len(ALL) -> 0 .. n] :
        /\ c[King + 1] = 1
        /\ PieceTotal(c) <= n}

\* the subsets of at most n elements
RECURSIVE SubsetsUpTo(_, _)
SubsetsUpTo(S, n) ==
    IF n = 0 THEN {{}}
    ELSE LET smaller == SubsetsUpTo(S, n - 1)
         IN  smaller \cup {b \cup {x} : b \in smaller, x \in S}

\* the keys MaterialKey::new returns for the pieces and pawns within the bounds
Keys(max_pieces, max_pawns, squares) ==
    LET counts == {cc \in SideCounts(max_pieces) \X SideCounts(max_pieces) :
                      PieceTotal(cc[1]) + PieceTotal(cc[2]) <= max_pieces}
        some == SubsetsUpTo(squares, max_pawns)
        pawns == {wb \in some \X some :
                      /\ wb[1] \cap wb[2] = {}
                      /\ Cardinality(wb[1]) + Cardinality(wb[2]) <= max_pawns}
    IN  {MaterialKey_new(cc, PawnStructure(wb[1], wb[2])) : cc \in counts, wb \in pawns}

InitKey ==
    /\ key \in Keys(MaxPieces, MaxPawns, KeyPawnSquares)
    /\ text = <<>>
    /\ result = <<>>
    /\ index = 0
    /\ file = <<>>
    /\ pc = "key"
    /\ SolverIdle
    /\ CodecIdle

\* k.to_string()
Display ==
    /\ pc = "key"
    /\ text' = to_string(key)
    /\ pc' = "rendered"
    /\ UNCHANGED <<key, result, index, file, solverVars, codecVars>>

\* MaterialKey::from_string of the rendered key, or of a given string
FromString ==
    /\ pc \in {"rendered", "text"}
    /\ result' = from_string(text)
    /\ pc' = "parsed"
    /\ UNCHANGED <<key, text, index, file, solverVars, codecVars>>

\* MaterialKey::new on the four representations of the key: as it is, with
\* the sides mirrored, with the files mirrored, and with both
CanonicalizeRepresentations ==
    /\ pc = "key"
    /\ result' = <<canonicalize(key),
                   canonicalize(mirror_sides(key)),
                   canonicalize(mirror_left_to_right(key)),
                   canonicalize(mirror_left_to_right(mirror_sides(key)))>>
    /\ pc' = "canonical"
    /\ UNCHANGED <<key, text, index, file, solverVars, codecVars>>

\* k.child_material_keys()
ChildMaterialKeys ==
    /\ pc = "key"
    /\ result' = child_material_keys(key)
    /\ pc' = "children"
    /\ UNCHANGED <<key, text, index, file, solverVars, codecVars>>

NextKey == Display \/ FromString \/ CanonicalizeRepresentations \/ ChildMaterialKeys

SpecKey == InitKey /\ [][NextKey]_vars

(***************************************************************************)
(* from_string on strings that no key renders to: a king, at most one      *)
(* piece and pawn coordinates of every rank class for white, a king and at *)
(* most one pawn coordinate for black.                                     *)
(***************************************************************************)
\* most pawn coordinates on the white side of a parsed string
MaxTextPawns == 2

RECURSIVE CoordSeqs(_)
CoordSeqs(n) ==
    IF n = 0 THEN {<<>>}
    ELSE CoordSeqs(n - 1) \cup
         {<<f, r>> \o rest : f \in {"a", "h"}, r \in {"1", "2", "7", "8"},
                              rest \in CoordSeqs(n - 1)}

ParseTexts ==
    {<<"K">> \o p \o w \o <<"v", "K">> \o b :
        p \in {<<>>, <<"Q">>, <<"B", "l">>}, w \in CoordSeqs(MaxTextPawns), b \in CoordSeqs(1)}

InitParse ==
    /\ text \in ParseTexts
    /\ key = <<>>
    /\ result = <<>>
    /\ index = 0
    /\ file = <<>>
    /\ pc = "text"
    /\ SolverIdle
    /\ CodecIdle

NextParse == FromString

SpecParse == InitParse /\ [][NextParse]_vars

(***************************************************************************)
(* Claims on the material key.                                             *)
(***************************************************************************)
\* C6: parsing the rendering of a canonical key returns that key, and the
\* returned key renders to the same string.
C6_FromStringOfToStringIsTheKey ==
    pc = "parsed" => result = <<key>> /\ to_string(result[1]) = text

\* a key with bishops and with pawns of both colors was rendered and parsed
C6_Witness ==
    /\ pc = "parsed"
    /\ has_bishops(key)
    /\ key.pawns.white # {}
    /\ key.pawns.black # {}
    /\ result # <<>>

\* C7: the four representations of a key (sides mirrored or not, files
\* mirrored or not) canonicalize to one key, the least of the four
\* representations.
C7_RepresentationsShareTheMinimum ==
    pc = "canonical" =>
        LET reps == {key, mirror_sides(key), mirror_left_to_right(key),
                     mirror_left_to_right(mirror_sides(key))}
            least == CHOOSE m \in reps : \A r \in reps : ~MaterialKey_less(r, m)
        IN  \A n \in 1 .. 4 : result[n] = least

\* C8: the children of a key do not contain the key.
C8_ChildrenExcludeTheKey ==
    pc = "children" => key \notin result

\* the children of a key with a child of the same pieces and as many pawns
\* (a pawn push) and a child with a piece less (a capture)
C8_Witness ==
    /\ pc = "children"
    /\ \E c \in result :
          /\ c.counts = key.counts
          /\ Cardinality(occupied(c.pawns)) = Cardinality(occupied(key.pawns))
    /\ \E c \in result :
          PieceTotal(c.counts[1]) + PieceTotal(c.counts[2])
            < PieceTotal(key.counts[1]) + PieceTotal(key.counts[2])

(***************************************************************************)
(* position_indexer.rs.  A board is the set of its occupied squares, each  *)
(* with the color and the shakmaty Role of the piece on it; a Result is    *)
(* <<"Ok", value>> or <<"Err", error>>.                                    *)
\* C16: for every pawn of a color on the seventh rank of that color and
\* every role of Q, R, Bd, Bl, N, whatever the counts of the color are, the
\* children contain the canonical key with the pawn removed and the count of
\* the role incremented, without a capture and with one opposing non-king
\* piece removed.
C16_ChildrenContainEveryPromotion ==
    pc = "children" =>
        \A c \in {White, Black} :
            LET own == IF c = White THEN key.pawns.white ELSE key.pawns.black
                seventh == IF c = White THEN 6 ELSE 1
                without(sq) == IF c = White
                               THEN PawnStructure(key.pawns.white \ {sq}, key.pawns.black)
                               ELSE PawnStructure(key.pawns.white, key.pawns.black \ {sq})
                roles == {Queen, Rook, DarkBishop, LightBishop, Knight}
            IN  \A sq \in {x \in own : RankOf(x) = seventh} : \A r \in roles :
                    /\ MaterialKey_new([key.counts EXCEPT ![c + 1][r + 1] = @ + 1],
                                       without(sq)) \in result
                    /\ \A r2 \in {x \in roles : key.counts[2 - c][x + 1] > 0} :
                          MaterialKey_new([key.counts EXCEPT ![c + 1][r + 1] = @ + 1,
                                                             ![2 - c][r2 + 1] = @ - 1],
                                          without(sq)) \in result

\* C19: from_string returns None for every string with a pawn coordinate on
\* rank 1 or rank 8, so no parsed key has a pawn on a back rank.
C19_BackRankPawnsAreRejected ==
    pc = "parsed" =>
        /\ (\E i \in 1 .. Len(text) - 1 :
                /\ text[i] \in {"a", "b", "c", "d", "e", "f", "g", "h"}
                /\ i > 1 => text[i - 1] # "B"
                /\ text[i + 1] \in {"1", "8"})
            => result = <<>>
        /\ result # <<>> =>
              \A sq \in result[1].pawns.white \cup result[1].pawns.black : RankOf(sq) \in 1 .. 6

(***************************************************************************)
nth_light_square(n) ==
    LET rank == n \div 4
        file_index == n % 4
    IN  rank * 8 + (IF rank % 2 = 0 THEN 1 + 2 * file_index ELSE 2 * file_index)

nth_dark_square_AsLight(n) == nth_light_square(n)

nth_dark_square(n) ==
    LET rank == n \div 4
        file_index == n % 4
    IN  rank * 8 + (IF rank % 2 = 0 THEN 2 * file_index ELSE 1 + 2 * file_index)

\* HbPieceRole::role, the Role of shakmaty
role(hb) ==
    CASE hb = King -> "King"
      [] hb = Queen -> "Queen"
      [] hb = Rook -> "Rook"
      [] hb \in {LightBishop, DarkBishop} -> "Bishop"
      [] hb = Knight -> "Knight"

\* MaterialKey::pieces: white before black, each in the order of ALL
pieces(k) ==
    LET side(c) == Repeat(<<[role |-> King, color |-> c]>>, k.counts[c + 1][King + 1])
                   \o Repeat(<<[role |-> Queen, color |-> c]>>, k.counts[c + 1][Queen + 1])
                   \o Repeat(<<[role |-> Rook, color |-> c]>>, k.counts[c + 1][Rook + 1])
                   \o Repeat(<<[role |-> DarkBishop, color |-> c]>>, k.counts[c + 1][DarkBishop + 1])
                   \o Repeat(<<[role |-> LightBishop, color |-> c]>>, k.counts[c + 1][LightBishop + 1])
                   \o Repeat(<<[role |-> Knight, color |-> c]>>, k.counts[c + 1][Knight + 1])
    IN  side(White) \o side(Black)

\* a radix that gives a bishop all 64 squares
radix_AllSquares(hb) == 64

radix(hb) == IF hb \in {LightBishop, DarkBishop} THEN 32 ELSE 64

\* PositionIndexer::new: total_positions
RECURSIVE total_from(_, _)
total_from(ps, n) == IF n > Len(ps) THEN 2 ELSE radix(ps[n].role) * total_from(ps, n + 1)

total_positions(k) == total_from(pieces(k), 1)

\* PawnStructure::to_board
to_board(ps) ==
    {[sq |-> x, color |-> White, role |-> "Pawn"] : x \in ps.white}
    \cup {[sq |-> x, color |-> Black, role |-> "Pawn"] : x \in ps.black}

(***************************************************************************)
(* The rule engine (shakmaty), as the indexer and the table builder call   *)
(* it.  A board is the set of its pieces, a position is a board and the    *)
(* side to move.  The positions of an indexer have no castling rights and  *)
(* no en passant square (Setup::empty), so the moves are the plain ones.   *)
(***************************************************************************)
\* Color::other
other(c) == 1 - c

\* the squares the piece e attacks on the board
attacks(board, e) ==
    LET f == FileOf(e.sq)
        r == RankOf(e.sq)
        on(ff, rr) == ff \in 0 .. 7 /\ rr \in 0 .. 7
        taken_squares == {x.sq : x \in board}
        at(k, d) == (r + k * d[2]) * 8 + f + k * d[1]
        ray(d) == {at(k, d) : k \in {k \in 1 .. 7 :
                       /\ on(f + k * d[1], r + k * d[2])
                       /\ \A j \in 1 .. k - 1 : at(j, d) \notin taken_squares}}
        step(ds) == {at(1, d) : d \in {d \in ds : on(f + d[1], r + d[2])}}
        orthogonal == {<<1, 0>>, <<-1, 0>>, <<0, 1>>, <<0, -1>>}
        diagonal == {<<1, 1>>, <<1, -1>>, <<-1, 1>>, <<-1, -1>>}
        forward == IF e.color = White THEN 1 ELSE -1
    IN  CASE e.role = "King" -> step(orthogonal \cup diagonal)
          [] e.role = "Queen" -> UNION {ray(d) : d \in orthogonal \cup diagonal}
          [] e.role = "Rook" -> UNION {ray(d) : d \in orthogonal}
          [] e.role = "Bishop" -> UNION {ray(d) : d \in diagonal}
          [] e.role = "Knight" ->
                step({<<1, 2>>, <<2, 1>>, <<2, -1>>, <<1, -2>>,
                      <<-1, -2>>, <<-2, -1>>, <<-2, 1>>, <<-1, 2>>})
          [] e.role = "Pawn" -> step({<<-1, forward>>, <<1, forward>>})

\* the king of color c is attacked
is_check(board, c) ==
    \E k \in board : \E e \in board :
        /\ k.role = "King" /\ k.color = c
        /\ e.color = other(c)
        /\ k.sq \in attacks(board, e)

\* Chess::from_setup: no pawn on a back rank and the side that is not to
\* move not in check (which covers kings on adjacent squares).  The other
\* errors of from_setup need a missing king or two checking pieces.
from_setup(setup) ==
    IF /\ \A e \in setup.board : e.role = "Pawn" => RankOf(e.sq) \in 1 .. 6
       /\ ~is_check(setup.board, other(setup.turn))
    THEN <<"Ok", setup>>
    ELSE <<"Err", "InvalidPosition">>

\* Position::play_unchecked
play_unchecked(pos, mv) ==
    [board |-> {e \in pos.board : e.sq \notin {mv.from, mv.to}}
               \cup {[sq |-> mv.to, color |-> pos.turn,
                      role |-> IF mv.promotion = "None" THEN mv.role ELSE mv.promotion]},
     turn |-> other(pos.turn)]

\* Position::legal_moves: a move is its origin, its target, the role that
\* moves, the role it captures and the role it promotes to
legal_moves(pos) ==
    LET taken_squares == {x.sq : x \in pos.board}
        own == {x.sq : x \in {y \in pos.board : y.color = pos.turn}}
        taken(sq) == IF sq \in taken_squares
                     THEN (CHOOSE x \in pos.board : x.sq = sq).role ELSE "None"
        Move(e, to, promo) ==
            [from |-> e.sq, to |-> to, role |-> e.role,
             capture |-> taken(to), promotion |-> promo]
        forward(e) == IF e.color = White THEN 8 ELSE -8
        last(e) == IF e.color = White THEN 7 ELSE 0
        start(e) == IF e.color = White THEN 1 ELSE 6
        promotions(e, to) ==
            IF RankOf(to) = last(e) THEN {"Queen", "Rook", "Bishop", "Knight"}
            ELSE {"None"}
        pushes(e) ==
            IF e.sq + forward(e) \in taken_squares \/ e.sq + forward(e) \notin 0 .. 63 THEN {}
            ELSE {e.sq + forward(e)}
                 \cup (IF RankOf(e.sq) = start(e) /\ e.sq + 2 * forward(e) \notin taken_squares
                       THEN {e.sq + 2 * forward(e)} ELSE {})
        targets(e) ==
            IF e.role = "Pawn"
            THEN pushes(e) \cup ((attacks(pos.board, e) \cap taken_squares) \ own)
            ELSE attacks(pos.board, e) \ own
        pseudo == UNION {UNION {{Move(e, to, promo) : promo \in
                                    IF e.role = "Pawn" THEN promotions(e, to) ELSE {"None"}} :
                                to \in targets(e)} :
                         e \in {y \in pos.board : y.color = pos.turn}}
    IN  {mv \in pseudo : ~is_check(play_unchecked(pos, mv).board, pos.turn)}

is_checkmate(pos) == is_check(pos.board, pos.turn) /\ legal_moves(pos) = {}

is_stalemate(pos) == ~is_check(pos.board, pos.turn) /\ legal_moves(pos) = {}

\* Position::is_insufficient_material: neither side can ever give mate
is_insufficient_material(pos) ==
    LET side(c) == {e \in pos.board : e.color = c}
        has(S, roles) == \E e \in S : e.role \in roles
        light(sq) == (RankOf(sq) + FileOf(sq)) % 2 = 1
        bishops == {e \in pos.board : e.role = "Bishop"}
        insufficient(c) ==
            IF has(side(c), {"Pawn", "Rook", "Queen"}) THEN FALSE
            ELSE IF has(side(c), {"Knight"})
            THEN /\ Cardinality(side(c)) <= 2
                 /\ ~has(side(other(c)), {"Pawn", "Rook", "Bishop", "Knight"})
            ELSE IF has(side(c), {"Bishop"})
            THEN /\ (\A e \in bishops : light(e.sq)) \/ (\A e \in bishops : ~light(e.sq))
                 /\ ~has(pos.board, {"Pawn", "Knight"})
            ELSE TRUE
    IN  insufficient(White) /\ insufficient(Black)

\* the loop of index_to_position from piece n on
RECURSIVE place_pieces(_, _, _, _, _)
place_pieces(board, turn, ps, n, remaining) ==
    IF n > Len(ps) THEN from_setup([board |-> board, turn |-> turn])
    ELSE LET position == remaining % radix(ps[n].role)
             square == CASE ps[n].role = LightBishop -> nth_light_square(position)
                         [] ps[n].role = DarkBishop -> nth_dark_square(position)
                         [] OTHER -> position
         IN  IF \E e \in board : e.sq = square
             THEN <<"Err", "TwoPiecesOnSameSquare">>
             ELSE place_pieces(
                    board \cup {[sq |-> square, color |-> ps[n].color, role |-> role(ps[n].role)]},
                    turn, ps, n + 1, remaining \div radix(ps[n].role))

index_to_position(k, i) ==
    IF i >= total_positions(k) THEN <<"Err", "IndexOutOfBounds">>
    ELSE place_pieces(to_board(k.pawns), IF i % 2 = 0 THEN White ELSE Black,
                      pieces(k), 1, i \div 2)

\* the loop of position_to_index from piece n on
RECURSIVE index_pieces(_, _, _, _, _)
index_pieces(board, ps, n, idx, multiplier) ==
    IF n > Len(ps) THEN <<"Ok", idx>>
    ELSE LET light(sq) == (RankOf(sq) + FileOf(sq)) % 2 = 1
             mask(sq) == CASE ps[n].role = LightBishop -> light(sq)
                           [] ps[n].role = DarkBishop -> ~light(sq)
                           [] OTHER -> TRUE
             bitboard == {e.sq : e \in {x \in board : /\ x.color = ps[n].color
                                                      /\ x.role = role(ps[n].role)
                                                      /\ mask(x.sq)}}
         IN  IF bitboard = {} THEN <<"Err", "MismatchedMaterial">>
             ELSE LET square == CHOOSE x \in bitboard : \A y \in bitboard : x <= y
                      position == IF ps[n].role \in {LightBishop, DarkBishop}
                                  THEN square \div 2 ELSE square
                  IN  index_pieces({e \in board : e.sq # square}, ps, n + 1,
                                   idx + multiplier * position,
                                   multiplier * radix(ps[n].role))

position_to_index(k, pos) ==
    LET pawns(c) == {e.sq : e \in {x \in pos.board : x.role = "Pawn" /\ x.color = c}}
    IN  IF pawns(White) # k.pawns.white \/ pawns(Black) # k.pawns.black
        THEN <<"Err", "MismatchedMaterial">>
        ELSE index_pieces(pos.board, pieces(k), 1, pos.turn, 2)

(***************************************************************************)
(* The position indexer as a state machine: an index is decoded, the       *)
(* position is encoded, and the index it gives is decoded again.           *)
(***************************************************************************)
\* number of squares the pieces of the decoded indices are drawn from
NumSampleSquares == 4

\* a1, b1, a2 (the square of a pawn), h8, c3, g7
SampleSquares == {<<0, 1, 8, 63, 18, 54>>[n] : n \in 1 .. NumSampleSquares}

IndexerKeys ==
    {from_string(str)[1] :
        str \in {<<"K", "v", "K">>,
                 <<"K", "Q", "v", "K">>,
                 <<"K", "N", "N", "v", "K">>,
                 <<"K", "B", "d", "v", "K", "B", "l">>,
                 <<"K", "B", "d", "B", "d", "v", "K">>,
                 <<"K", "R", "a", "2", "v", "K", "h", "7">>}}

\* the indices whose pieces stand on the sample squares (a bishop on the
\* square of its color that the digit of the sample square names)
RECURSIVE SampleIndices(_, _)
SampleIndices(ps, n) ==
    IF n > Len(ps) THEN {0}
    ELSE {(IF ps[n].role \in {LightBishop, DarkBishop} THEN sq \div 2 ELSE sq)
          + radix(ps[n].role) * rest :
              sq \in SampleSquares, rest \in SampleIndices(ps, n + 1)}

InitIndexer ==
    /\ key \in IndexerKeys
    /\ index \in {turn + 2 * placement :
                     turn \in {White, Black}, placement \in SampleIndices(pieces(key), 1)}
    /\ text = <<>>
    /\ result = <<>>
    /\ file = <<>>
    /\ pc = "index"
    /\ SolverIdle
    /\ CodecIdle

\* indexer.index_to_position(index)
IndexToPosition ==
    /\ pc = "index"
    /\ result' = <<index_to_position(key, index)>>
    /\ pc' = "decoded"
    /\ UNCHANGED <<key, text, index, file, solverVars, codecVars>>

\* indexer.position_to_index(&pos) of the position the index decoded to
PositionToIndex ==
    /\ pc = "decoded"
    /\ result[1][1] = "Ok"
    /\ result' = Append(result, position_to_index(key, result[1][2]))
    /\ pc' = "encoded"
    /\ UNCHANGED <<key, text, index, file, solverVars, codecVars>>

\* indexer.index_to_position of the index the position encoded to
IndexToPositionAgain ==
    /\ pc = "encoded"
    /\ result[2][1] = "Ok"
    /\ result' = Append(result, index_to_position(key, result[2][2]))
    /\ pc' = "redecoded"
    /\ UNCHANGED <<key, text, index, file, solverVars, codecVars>>

\* another indexer's position_to_index(&pos) of the position the index
\* decoded to: text is the material key string of that indexer
PositionToIndexOfOtherKey ==
    /\ pc = "decoded"
    /\ result[1][1] = "Ok"
    /\ \E k2 \in IndexerKeys :
          /\ text' = to_string(k2)
          /\ result' = Append(result, position_to_index(k2, result[1][2]))
    /\ pc' = "probed"
    /\ UNCHANGED <<key, index, file, solverVars, codecVars>>

NextIndexer ==
    IndexToPosition \/ PositionToIndex \/ IndexToPositionAgain \/ PositionToIndexOfOtherKey

SpecIndexer == InitIndexer /\ [][NextIndexer]_vars

(***************************************************************************)
(* Claims on the position indexer.                                         *)
(***************************************************************************)
\* C4: when an index below total_positions decodes to a position, encoding
\* the position succeeds with an index below total_positions, and that
\* index decodes to the same position.
C4_ValidIndexIsStableUnderRoundTrip ==
    /\ pc = "encoded" =>
          result[2][1] = "Ok" /\ result[2][2] \in 0 .. (total_positions(key) - 1)
    /\ pc = "redecoded" => result[3] = result[1]

\* an index of a key with two pieces alike went round to another index and
\* decoded to the same position again
C4_Witness ==
    /\ pc = "redecoded"
    /\ result[2][2] # index
    /\ result[3][1] = "Ok"
    /\ result[3][2] = result[1][2]

\* C17: total_positions is 2 times 32 for every light or dark bishop of the
\* key and 64 for every other non-pawn piece, kings included; the pawns of
\* the key contribute no factor.
C17_TotalPositionsIsTheProductOfRadices ==
    LET count(r) == key.counts[White + 1][r + 1] + key.counts[Black + 1][r + 1]
        bishops == count(LightBishop) + count(DarkBishop)
        others == count(King) + count(Queen) + count(Rook) + count(Knight)
    IN  total_positions(key) = 2 * Pow2(6 * others + 5 * bishops)

\* an index of a key with pawns and one of a key with two bishops were
\* checked against the total and decoded
C17_Witness ==
    /\ pc = "decoded"
    /\ result[1][1] = "Ok"
    /\ index > 2 * 64 * 64
    /\ key.counts[White + 1][DarkBishop + 1] = 2

\* the pieces of a color on the board, bishops told apart by the color of
\* their square
BoardCount(board, c, r) ==
    LET light(sq) == (RankOf(sq) + FileOf(sq)) % 2 = 1
    IN  Cardinality({e \in board :
            /\ e.color = c
            /\ e.role = role(r)
            /\ r = LightBishop => light(e.sq)
            /\ r = DarkBishop => ~light(e.sq)})

\* the material of the position differs from the key k
MaterialDiffers(k, pos) ==
    \/ {e.sq : e \in {x \in pos.board : x.role = "Pawn" /\ x.color = White}} # k.pawns.white
    \/ {e.sq : e \in {x \in pos.board : x.role = "Pawn" /\ x.color = Black}} # k.pawns.black
    \/ \E c \in {White, Black} : \E r \in {King, Queen, Rook, LightBishop, DarkBishop, Knight} :
          BoardCount(pos.board, c, r) # k.counts[c + 1][r + 1]

\* C18: position_to_index returns MismatchedMaterial, and no index, when the
\* pawn squares of the position or its pieces per color (bishops by square
\* color) differ from the key of the indexer, a piece missing or extra.
C18_MismatchedMaterialIsReported ==
    pc = "probed" =>
        (MaterialDiffers(from_string(text)[1], result[1][2])
            => result[2] = <<"Err", "MismatchedMaterial">>)

(***************************************************************************)
(* wdl_file.rs.  A file is the sequence of its bytes.                      *)
(***************************************************************************)
\* b"HBWD"
MAGIC == <<72, 66, 87, 68>>

VERSION == 2

\* the characters of the key strings and their bytes
KeyChars ==
    <<"K", "Q", "R", "B", "N", "l", "d", "v"
    >> \o FileChars \o RankChars

KeyBytes ==
    <<75, 81, 82, 66, 78, 108, 100, 118,
      97, 98, 99, 100, 101, 102, 103, 104,
      49, 50, 51, 52, 53, 54, 55, 56>>

as_bytes(str) == [n \in 1 .. Len(str) |-> KeyBytes[IndexIn(KeyChars, str[n])]]

\* String::from_utf8 on ASCII bytes; "?" stands for a character no key has
from_utf8(bytes) ==
    [n \in 1 .. Len(bytes) |->
        IF \E m \in 1 .. Len(KeyBytes) : KeyBytes[m] = bytes[n]
        THEN KeyChars[IndexIn(KeyBytes, bytes[n])]
        ELSE "?"]

\* the w low bytes of n, least significant first
\* the bytes of n, most significant first
RECURSIVE to_le_bytes_BigEndian(_, _)
to_le_bytes_BigEndian(n, w) ==
    IF w = 0 THEN <<>> ELSE to_le_bytes_BigEndian(n \div 256, w - 1) \o <<n % 256>>

RECURSIVE to_le_bytes(_, _)
to_le_bytes(n, w) == IF w = 0 THEN <<>> ELSE <<n % 256>> \o to_le_bytes(n \div 256, w - 1)

RECURSIVE from_le_bytes(_)
from_le_bytes(bytes) ==
    IF bytes = <<>> THEN 0 ELSE bytes[1] + 256 * from_le_bytes(Tail(bytes))

RECURSIVE Flatten(_)
Flatten(seqs) == IF seqs = <<>> THEN <<>> ELSE seqs[1] \o Flatten(Tail(seqs))

\* the header and the material key of the file
write_header_NoKeyLength(mk_string) == MAGIC \o <<VERSION>> \o as_bytes(mk_string)

write_header(mk_string) ==
    MAGIC \o <<VERSION>> \o <<Len(mk_string) % 256>> \o as_bytes(mk_string)

\* the bytes write_wdl_file leaves in the file, and what it returns
write_wdl_file(material, d) ==
    LET mk_string == to_string(material)
    IN  IF Len(mk_string) > 255
        THEN [file |-> MAGIC \o <<VERSION>>, result |-> <<"Err", "InvalidInput">>]
        ELSE [file |->
                write_header(mk_string)
                \o to_le_bytes(d.orig_len, 8)
                \o to_le_bytes(d.base_symbols, 2)
                \o to_le_bytes(Len(d.sym_pairs) % 65536, 2)
                \o Flatten([n \in 1 .. Len(d.sym_pairs) |->
                              to_le_bytes(d.sym_pairs[n][1], 2)
                              \o to_le_bytes(d.sym_pairs[n][2], 2)])
                \o to_le_bytes(Len(d.code_lens) % 65536, 2)
                \o d.code_lens
                \o to_le_bytes(d.bit_len, 8)
                \o to_le_bytes(Len(d.bitstream), 4)
                \o d.bitstream,
              result |-> <<"Ok">>]

\* the header check without the comparison of the version byte
read_header_NoVersionCheck(bytes) ==
    IF Len(bytes) < 4 THEN <<"Err", "UnexpectedEof">>
    ELSE IF SubSeq(bytes, 1, 4) # MAGIC THEN <<"Err", "InvalidData">>
    ELSE IF Len(bytes) < 5 THEN <<"Err", "UnexpectedEof">>
    ELSE <<"Ok">>

\* read_wdl_file: the magic and the version
read_header(bytes) ==
    IF Len(bytes) < 4 THEN <<"Err", "UnexpectedEof">>
    ELSE IF SubSeq(bytes, 1, 4) # MAGIC THEN <<"Err", "InvalidData">>
    ELSE IF Len(bytes) < 5 THEN <<"Err", "UnexpectedEof">>
    ELSE IF bytes[5] # VERSION THEN <<"Err", "InvalidData">>
    ELSE <<"Ok">>

read_wdl_file(bytes) ==
    LET have(at, n) == at + n - 1 <= Len(bytes)
        u(at, n) == from_le_bytes(SubSeq(bytes, at, at + n - 1))
        eof == <<"Err", "UnexpectedEof">>
        invalid == <<"Err", "InvalidData">>
        mk_len == bytes[6]
        material == from_string(from_utf8(SubSeq(bytes, 7, 6 + mk_len)))
        meta == 7 + mk_len
        pair_len == u(meta + 10, 2)
        lens == meta + 12 + 4 * pair_len
        lens_len == u(lens, 2)
        bits == lens + 2 + lens_len
        bs_len == u(bits + 8, 4)
    IN  IF read_header(bytes)[1] = "Err" THEN read_header(bytes)
        ELSE IF ~have(6, 1) THEN eof
        ELSE IF ~have(7, mk_len) THEN eof
        ELSE IF material = <<>> THEN invalid
        ELSE IF ~have(meta, 12) THEN eof
        ELSE IF ~have(meta + 12, 4 * pair_len) THEN eof
        ELSE IF ~have(lens, 2) THEN eof
        ELSE IF ~have(lens + 2, lens_len) THEN eof
        ELSE IF ~have(bits, 12) THEN eof
        ELSE IF ~have(bits + 12, bs_len) THEN eof
        ELSE <<"Ok",
               [material |-> material[1],
                data |-> CompressedWdl(
                            u(meta + 8, 2),
                            [n \in 1 .. pair_len |->
                                <<u(meta + 12 + 4 * (n - 1), 2),
                                  u(meta + 14 + 4 * (n - 1), 2)>>],
                            SubSeq(bytes, lens + 2, lens + 1 + lens_len),
                            SubSeq(bytes, bits + 12, bits + 11 + bs_len),
                            u(bits, 8),
                            u(meta, 8))]>>

(***************************************************************************)
(* The table file as a state machine: a table is compressed, written to a  *)
(* file with its material key, and the file is read back.                  *)
(***************************************************************************)
\* longest table of the file runs
MaxFileTableLen == 3

InitFile ==
    /\ key \in IndexerKeys
    /\ values \in SeqsUpTo(WdlValues, MaxFileTableLen)
    /\ data = NoData
    /\ output = Panicked
    /\ text = <<>>
    /\ result = <<>>
    /\ index = 0
    /\ file = <<>>
    /\ pc = "table"
    /\ SolverIdle

\* write_wdl_file(path, &key, &data)
WriteWdlFile ==
    /\ pc = "compressed"
    /\ LET written == write_wdl_file(key, data)
       IN  /\ file' = written.file
           /\ result' = written.result
    /\ pc' = "written"
    /\ UNCHANGED <<key, text, index, solverVars, codecVars>>

\* read_wdl_file(path)
ReadWdlFile ==
    /\ pc = "written"
    /\ result[1] = "Ok"
    /\ result' = read_wdl_file(file)
    /\ pc' = "read"
    /\ UNCHANGED <<key, text, index, file, solverVars, codecVars>>

\* bytes a damaged header holds: 0, the version of the format document,
\* VERSION, and the first byte of MAGIC
DamageBytes == {0, 1, VERSION, 72}

\* read_wdl_file(path) of a file that is not what write_wdl_file wrote: one
\* of its first five bytes is another byte and the file may end after the
\* magic, after the version or after the key length
ReadDamagedFile ==
    /\ pc = "written"
    /\ result[1] = "Ok"
    /\ \E i \in 1 .. 5 : \E b \in DamageBytes : \E n \in {4, 5, 6, Len(file)} :
          /\ file' = SubSeq([file EXCEPT ![i] = b], 1, n)
          /\ result' = read_wdl_file(file')
    /\ pc' = "damaged"
    /\ UNCHANGED <<key, text, index, solverVars, codecVars>>

NextFile == Compress \/ WriteWdlFile \/ ReadWdlFile \/ ReadDamagedFile

SpecFile == InitFile /\ [][NextFile]_vars

C20_BadMagicOrVersionIsInvalidData ==
    pc = "damaged" =>
        ((\/ Len(file) >= 4 /\ SubSeq(file, 1, 4) # <<72, 66, 87, 68>>
          \/ Len(file) >= 5 /\ file[5] # VERSION)
            => result = <<"Err", "InvalidData">>)

\* a file with the magic and another version byte, cut after the version
\* byte, was read and refused as invalid data
C20_Witness ==
    /\ pc = "damaged"
    /\ Len(file) = 5
    /\ SubSeq(file, 1, 4) = MAGIC
    /\ file[5] = 1
    /\ result = <<"Err", "InvalidData">>

\* the bytes of the file read as the layout of the format with the given
\* version byte: magic, version, key length and key, orig_len (u64),
\* base_symbols (u16), the pairs (u16 count, two u16 each), the code lengths
\* (u16 count, one byte each), bit_len (u64), the bitstream (u32 length)
FileLayout(version) ==
    LET le(from, width) == from_le_bytes(SubSeq(file, from + 1, from + width))
        L == file[6]
        pairs_at == 6 + L + 10
        lens_at == pairs_at + 2 + 4 * le(pairs_at, 2)
        bits_at == lens_at + 2 + le(lens_at, 2)
    IN  /\ SubSeq(file, 1, 4) = <<72, 66, 87, 68>>
        /\ file[5] = version
        /\ L = Len(to_string(key))
        /\ SubSeq(file, 7, 6 + L) = as_bytes(to_string(key))
        /\ le(6 + L, 8) = data.orig_len
        /\ le(6 + L + 8, 2) = data.base_symbols
        /\ le(pairs_at, 2) = Len(data.sym_pairs)
        /\ \A n \in 1 .. Len(data.sym_pairs) :
              /\ le(pairs_at + 2 + 4 * (n - 1), 2) = data.sym_pairs[n][1]
              /\ le(pairs_at + 4 + 4 * (n - 1), 2) = data.sym_pairs[n][2]
        /\ le(lens_at, 2) = Len(data.code_lens)
        /\ SubSeq(file, lens_at + 3, lens_at + 2 + Len(data.code_lens)) = data.code_lens
        /\ le(bits_at, 8) = data.bit_len
        /\ le(bits_at + 8, 4) = Len(data.bitstream)
        /\ SubSeq(file, bits_at + 13, bits_at + 12 + Len(data.bitstream)) = data.bitstream
        /\ Len(file) = bits_at + 12 + Len(data.bitstream)

\* C21 (as stated): the file written by write_wdl_file starts with the magic
\* HBWD at offset 0, the version byte 1 at offset 4, the key length L at
\* offset 5, the L key bytes, then orig_len as a little-endian u64,
\* base_symbols, the sym_pairs count and pairs, the code_lens count and
\* bytes, bit_len, and the bitstream length and bytes in that order.
C21_FileLayoutWithVersion1 ==
    (pc = "written" /\ result = <<"Ok">>) => FileLayout(1)

\* C21 (amended): the same layout with the version byte VERSION = 2.
C21_FileLayoutWithVersion2 ==
    (pc = "written" /\ result = <<"Ok">>) => FileLayout(VERSION)

\* a file of a key with pawns and of a table with a substituted pair
C21_Witness ==
    /\ pc = "written"
    /\ result = <<"Ok">>
    /\ key.pawns.white # {}
    /\ Len(data.sym_pairs) > 0
    /\ Len(data.bitstream) > 0
    /\ file[5] = VERSION

(***************************************************************************)
(* table_builder.rs over position_indexer.rs and material_key/mod.rs: the  *)
(* TableBuilder of one material key with its child tables.                 *)
(*                                                                         *)
(* A Vec of scores is a record: fill is the value of the entries that at   *)
(* does not list.  child_indexers has the keys of child_tables (the two    *)
(* maps are filled together), so an indexer is named by its key.           *)
(***************************************************************************)
entry(v, i) == IF i \in DOMAIN v.at THEN v.at[i] ELSE v.fill

store(v, i, x) ==
    IF i \in DOMAIN v.at THEN [v EXCEPT !.at[i] = x]
    ELSE [v EXCEPT !.at = (i :> x) @@ @]

\* MaterialKey::from_position
from_position(position) ==
    MaterialKey_new(
        [c \in 1 .. 2 |-> [r \in 1 .. 6 |-> BoardCount(position.board, c - 1, r - 1)]],
        PawnStructure(
            {e.sq : e \in {x \in position.board : x.role = "Pawn" /\ x.color = White}},
            {e.sq : e \in {x \in position.board : x.role = "Pawn" /\ x.color = Black}}))

\* TableBuilder::with_data_dir: the children whose file reads and carries the
\* key asked for are loaded, the others are missing
with_data_dir(material, dir) ==
    LET children == child_material_keys(material)
        read(child) == dir[to_string(child)]
        loaded == {child \in children :
                      /\ read(child).read = "Ok"
                      /\ read(child).key = to_string(child)}
    IN  [positions |-> [fill |-> unknown, at |-> <<>>],
         child_tables |-> [child \in loaded |-> [fill |-> read(child).fill, at |-> <<>>]],
         loaded_child_tables |-> loaded,
         missing_child_tables |-> children \ loaded]

\* TableBuilder::evaluate_move: the score, or the panic of unwrap()
evaluate_move(material, scores, tables, position, mv) ==
    LET child_position == play_unchecked(position, mv)
    IN  IF mv.capture = "None" /\ mv.promotion = "None"
        THEN LET child_index == position_to_index(material, child_position)
             IN  IF child_index[1] = "Err" THEN <<"Panic">>
                 ELSE <<"Ok", add_half_move(entry(scores, child_index[2]))>>
        ELSE IF is_checkmate(child_position) THEN <<"Ok", checkmate>>
        ELSE IF is_stalemate(child_position) \/ is_insufficient_material(child_position)
        THEN <<"Ok", draw>>
        ELSE LET child_key == from_position(child_position)
             IN  IF child_key \in DOMAIN tables
                 THEN LET idx == position_to_index(child_key, child_position)
                      IN  IF idx[1] = "Ok"
                          THEN <<"Ok", DtzFromWdl(entry(tables[child_key], idx[2]))>>
                          ELSE <<"Ok", unknown>>
                 ELSE <<"Ok", unknown>>

\* step_internal has no arm for PositionMappingError::TwoPiecesOnSameSquare
\* of position_indexer.rs: the slot is set to Illegal, as for InvalidPosition
two_pieces_on_same_square_score == illegal

\* a step that takes the scores of the moves as the mover's
step_moves_NoFlip(r, pos_index, moves) ==
    LET new_score == ReduceMax({m[2] : m \in moves})
    IN  IF <<"Panic">> \in moves THEN <<"Panic">>
        ELSE IF new_score # entry(r[2], pos_index)
        THEN <<"Ok", store(r[2], pos_index, new_score), r[3] + 1>>
        ELSE r

\* the end of the loop body of step_internal: the scores of the legal moves
\* are flipped and reduced with max, and the slot is updated if it changes
step_moves(r, pos_index, moves) ==
    LET new_score == ReduceMax({flip(m[2]) : m \in moves})
    IN  IF <<"Panic">> \in moves THEN <<"Panic">>
        ELSE IF new_score # entry(r[2], pos_index)
        THEN <<"Ok", store(r[2], pos_index, new_score), r[3] + 1>>
        ELSE r

\* a step that leaves the slot of an invalid position as it is
step_decoded_InvalidPositionSkipped(material, tables, r, pos_index, decoded) ==
    LET updated(x) == <<"Ok", store(r[2], pos_index, x), r[3] + 1>>
    IN  IF decoded[1] = "Err"
        THEN IF decoded[2] = "InvalidPosition" THEN r
             ELSE IF decoded[2] = "TwoPiecesOnSameSquare"
             THEN updated(two_pieces_on_same_square_score)
             ELSE r
        ELSE IF is_checkmate(decoded[2]) THEN updated(checkmate)
        ELSE IF is_insufficient_material(decoded[2]) \/ is_stalemate(decoded[2])
        THEN updated(draw)
        ELSE step_moves(r, pos_index,
                {evaluate_move(material, r[2], tables, decoded[2], mv) :
                    mv \in legal_moves(decoded[2])})

\* a step that marks the slot of an invalid position without counting it
step_decoded_InvalidPositionUncounted(material, tables, r, pos_index, decoded) ==
    LET updated(x) == <<"Ok", store(r[2], pos_index, x), r[3] + 1>>
    IN  IF decoded[1] = "Err"
        THEN IF decoded[2] = "InvalidPosition"
             THEN <<"Ok", store(r[2], pos_index, illegal), r[3]>>
             ELSE IF decoded[2] = "TwoPiecesOnSameSquare"
             THEN updated(two_pieces_on_same_square_score)
             ELSE r
        ELSE IF is_checkmate(decoded[2]) THEN updated(checkmate)
        ELSE IF is_insufficient_material(decoded[2]) \/ is_stalemate(decoded[2])
        THEN updated(draw)
        ELSE step_moves(r, pos_index,
                {evaluate_move(material, r[2], tables, decoded[2], mv) :
                    mv \in legal_moves(decoded[2])})

\* the loop body of step_internal from the match on index_to_position on:
\* decoded is what index_to_position returned for pos_index
step_decoded(material, tables, r, pos_index, decoded) ==
    LET updated(x) == <<"Ok", store(r[2], pos_index, x), r[3] + 1>>
    IN  IF decoded[1] = "Err"
        THEN IF decoded[2] = "InvalidPosition" THEN updated(illegal)
             ELSE IF decoded[2] = "TwoPiecesOnSameSquare"
             THEN updated(two_pieces_on_same_square_score)
             ELSE r
        ELSE IF is_checkmate(decoded[2]) THEN updated(checkmate)
        ELSE IF is_insufficient_material(decoded[2]) \/ is_stalemate(decoded[2])
        THEN updated(draw)
        ELSE step_moves(r, pos_index,
                {evaluate_move(material, r[2], tables, decoded[2], mv) :
                    mv \in legal_moves(decoded[2])})

\* the body of the loop of step_internal for pos_index: r is the scores and
\* the number of updates before it, or the panic; the result is r after it
step_position(material, tables, r, pos_index) ==
    IF r[1] = "Panic" THEN r
    ELSE IF is_illegal(entry(r[2], pos_index)) \/ is_certain(entry(r[2], pos_index))
    THEN r
    ELSE step_decoded(material, tables, r, pos_index,
                      index_to_position(material, pos_index))

\* the loop of step_internal over the lo-th to the hi-th index of todo, in
\* ascending order (todo = {}: over the indices lo to hi themselves); the
\* lower half of the range is computed before the upper half
RECURSIVE step_range(_, _, _, _, _, _)
step_range(material, tables, r, todo, lo, hi) ==
    IF lo > hi THEN r
    ELSE IF lo = hi
    THEN step_position(material, tables, r,
            IF todo = {} THEN lo
            ELSE CHOOSE i \in todo : Cardinality({j \in todo : j < i}) = lo)
    ELSE LET left == step_range(material, tables, r, todo, lo, (lo + hi) \div 2)
         IN  IF left[1] = "Panic" THEN left
             ELSE step_range(material, tables, left, todo, (lo + hi) \div 2 + 1, hi)

\* TableBuilder::step_internal for the builder of a material key.  An entry
\* that is certain is skipped, so with a certain fill only the listed
\* entries are visited.
step_builder(material, tables, scores) ==
    step_range(material, tables,
               <<"Ok",
                 IF is_certain(scores.fill) THEN scores
                 ELSE [fill |-> scores.fill,
                       at |-> [i \in 0 .. total_positions(material) - 1 |->
                                  entry(scores, i)]],
                 0>>,
               IF is_certain(scores.fill) THEN DOMAIN scores.at ELSE {},
               0,
               (IF is_certain(scores.fill) THEN Cardinality(DOMAIN scores.at)
                ELSE total_positions(material)) - 1)

(***************************************************************************)
(* The table builder as a state machine: a builder is made for a material  *)
(* key over a data directory; then one move of one position is evaluated,  *)
(* or the table is solved step by step, from all Unknown or from the table *)
(* the tests prepare (all Draw but the entries under study).               *)
(***************************************************************************)
\* number of squares the pieces of the positions under study stand on
NumBuilderSquares == 5

\* a8, b6, b7, c6, a7, c7, h1
BuilderSquares == {<<56, 41, 49, 42, 48, 50, 7>>[n] : n \in 1 .. NumBuilderSquares}

\* the largest table that is solved from all Unknown
MaxSweep == 8192

BuilderKeys ==
    {from_string(str)[1] :
        str \in {<<"K", "v", "K">>,
                 <<"K", "Q", "v", "K">>,
                 <<"K", "Q", "v", "K", "R">>,
                 <<"K", "a", "2", "v", "K">>}}

\* what read_wdl_file gives for the file of a child: no file, an error of
\* reading, or the key and the table of the file (a table of one value);
\* the file of another key carries the key of the parent
FileReads(name, parent) ==
    {[read |-> "absent", key |-> <<>>, fill |-> Unknown],
     [read |-> "unreadable", key |-> <<>>, fill |-> Unknown],
     [read |-> "Ok", key |-> parent, fill |-> Loss],
     [read |-> "Ok", key |-> name, fill |-> Loss]}

\* the data directories of a material key: a read for the file of each child
DataDirs(material) ==
    LET names == {to_string(child) : child \in child_material_keys(material)}
    IN  {dir \in [names -> UNION {FileReads(n, to_string(material)) : n \in names}] :
            \A n \in names : dir[n] \in FileReads(n, to_string(material))}

\* the indices of the key whose pieces stand on the squares under study
RECURSIVE PlacementsOn(_, _, _)
PlacementsOn(squares, ps, n) ==
    IF n > Len(ps) THEN {0}
    ELSE {(IF ps[n].role \in {LightBishop, DarkBishop} THEN sq \div 2 ELSE sq)
          + radix(ps[n].role) * rest :
              sq \in squares, rest \in PlacementsOn(squares, ps, n + 1)}

BuilderIndices(material) ==
    {turn + 2 * placement :
        turn \in {White, Black},
        placement \in PlacementsOn(BuilderSquares, pieces(material), 1)}

InitBuilder ==
    /\ key \in BuilderKeys
    /\ data_dir \in DataDirs(key)
    /\ child_tables = <<>>
    /\ loaded_child_tables = {}
    /\ missing_child_tables = {}
    /\ graph = <<>>
    /\ order = <<>>
    /\ positions = <<>>
    /\ it = 0
    /\ updates = 0
    /\ text = <<>>
    /\ result = <<>>
    /\ index = 0
    /\ file = <<>>
    /\ pc = "new"
    /\ CodecIdle

\* TableBuilder::with_data_dir(material, data_dir)
WithDataDir ==
    /\ pc = "new"
    /\ LET tb == with_data_dir(key, data_dir)
       IN  /\ positions' = tb.positions
           /\ child_tables' = tb.child_tables
           /\ loaded_child_tables' = tb.loaded_child_tables
           /\ missing_child_tables' = tb.missing_child_tables
    /\ pc' = "built"
    /\ UNCHANGED <<graph, order, it, updates, data_dir, codecVars, keyVars>>

\* evaluate_move of a legal move of the position of an index under study
EvaluateMove ==
    /\ pc = "built"
    /\ \E i \in BuilderIndices(key) :
          /\ index_to_position(key, i)[1] = "Ok"
          /\ \E mv \in legal_moves(index_to_position(key, i)[2]) :
                /\ index' = i
                /\ result' = <<mv, evaluate_move(key, positions, child_tables,
                                                 index_to_position(key, i)[2], mv)>>
    /\ pc' = "evaluated"
    /\ UNCHANGED <<key, text, file, solverVars, codecVars>>

\* the table the tests prepare: positions.fill(draw), then Unknown at the
\* index of a position under study and at the index a quiet move of it
\* leads to (or at the index of the position alone)
Fill ==
    /\ pc = "built"
    /\ \E i \in BuilderIndices(key) :
          /\ index_to_position(key, i)[1] = "Ok"
          /\ LET position == index_to_position(key, i)[2]
                 quiet == {position_to_index(key, play_unchecked(position, mv)) :
                              mv \in {m \in legal_moves(position) :
                                         m.capture = "None" /\ m.promotion = "None"}}
             IN  \E j \in {i} \cup ({q[2] : q \in {x \in quiet : x[1] = "Ok"}}
                                  \cap BuilderIndices(key)) :
                    positions' = [fill |-> draw, at |-> [u \in {i, j} |-> unknown]]
    /\ pc' = "filled"
    /\ UNCHANGED <<graph, order, it, updates, builderVars, codecVars, keyVars>>

\* one iteration of the loop of solve(): a step, then the two exits
BuilderStep ==
    /\ pc \in {"built", "filled", "stepped"}
    /\ is_certain(positions.fill) \/ total_positions(key) <= MaxSweep
    /\ LET r == step_builder(key, child_tables, positions)
       IN  IF r[1] = "Panic"
           THEN pc' = "panic" /\ UNCHANGED <<positions, updates, it>>
           ELSE /\ positions' = r[2]
                /\ updates' = r[3]
                /\ IF r[3] = 0
                   THEN pc' = "done" /\ it' = it
                   ELSE IF it = MAX_STEPS - 1
                        THEN pc' = "panic" /\ it' = it
                        ELSE pc' = "stepped" /\ it' = it + 1
    /\ UNCHANGED <<graph, order, builderVars, codecVars, keyVars>>

NextBuilder == WithDataDir \/ EvaluateMove \/ Fill \/ BuilderStep

SpecBuilder == InitBuilder /\ [][NextBuilder]_vars

C12_MateThenMateInOne ==
    (pc \in {"stepped", "done"} /\ positions.fill = draw)
    => LET at(i) == index_to_position(key, i)[2]
           into(p) == {position_to_index(key, play_unchecked(at(p), mv)) :
                          mv \in {m \in legal_moves(at(p)) :
                                     m.capture = "None" /\ m.promotion = "None"}}
       IN  /\ \A c \in DOMAIN positions.at :
                 /\ is_checkmate(at(c)) => entry(positions, c) = checkmate
                 /\ is_stalemate(at(c)) => entry(positions, c) = draw
           /\ (it >= 2 \/ pc = "done")
              => \A c \in DOMAIN positions.at : \A p \in DOMAIN positions.at :
                    (is_checkmate(at(c)) /\ <<"Ok", c>> \in into(p))
                    => WdlFromDtz(entry(positions, p)) = Win

\* the second step of KQvK has scored the mate in one: king c6, queen b6,
\* black king a8, white to move, and the checkmate with the queen on b7
C12_Witness ==
    /\ it >= 2 \/ pc = "done"
    /\ positions.fill = draw
    /\ to_string(key) = <<"K", "Q", "v", "K">>
    /\ DOMAIN positions.at = {2 * (42 + 64 * (41 + 64 * 56)), 1 + 2 * (42 + 64 * (49 + 64 * 56))}
    /\ is_checkmate(index_to_position(key, 1 + 2 * (42 + 64 * (49 + 64 * 56)))[2])
    /\ entry(positions, 1 + 2 * (42 + 64 * (49 + 64 * 56))) = checkmate
    /\ WdlFromDtz(entry(positions, 2 * (42 + 64 * (41 + 64 * 56)))) = Win

C14_PawnPushesReadTheChildTable ==
    pc = "evaluated"
    => LET mv == result[1]
           child_position == play_unchecked(index_to_position(key, index)[2], mv)
           child_key == from_position(child_position)
       IN  (/\ mv.role = "Pawn"
            /\ mv.capture = "None"
            /\ mv.promotion = "None"
            /\ ~is_checkmate(child_position)
            /\ ~is_stalemate(child_position)
            /\ ~is_insufficient_material(child_position)
            /\ child_key \in loaded_child_tables)
           => result[2] = <<"Ok", DtzFromWdl(child_tables[child_key].fill)>>

\* the file of the child is absent, unreadable, or carries another key
BadFile(child) ==
    \/ data_dir[to_string(child)].read # "Ok"
    \/ data_dir[to_string(child)].key # to_string(child)

\* C15: a child whose .hbt file is absent, unreadable or carries another key
\* than the one asked for is in the missing list and not in the loaded list
\* (every child is in exactly one of the two); construction and solving
\* still complete, and every move into such a child evaluates to Unknown.
C15_MissingChildrenAreUnknown ==
    pc # "new"
    => /\ \A child \in child_material_keys(key) :
             /\ (child \in loaded_child_tables) # (child \in missing_child_tables)
             /\ BadFile(child)
                => child \in missing_child_tables /\ child \notin loaded_child_tables
       /\ (\E child \in child_material_keys(key) : BadFile(child)) => pc # "panic"
       /\ pc = "evaluated"
          => LET child_position ==
                     play_unchecked(index_to_position(key, index)[2], result[1])
             IN  (/\ from_position(child_position) # key
                  /\ from_position(child_position) \in missing_child_tables)
                 => result[2] = <<"Ok", unknown>>

\* both bounds of a range are scores of the documented DTZ domain
in_dtz_domain(s) ==
    /\ s.min \in IMMEDIATE_LOSS .. IMMEDIATE_WIN
    /\ s.max \in IMMEDIATE_LOSS .. IMMEDIATE_WIN

\* C22: every bound (min and max) of every range that the solver stores in
\* its score array, or obtains from evaluate_move, add_half_move, flip or
\* max, lies in the interval [-100, +99].
C22_BoundsStayInTheDtzDomain ==
    /\ pc \in {"built", "filled", "stepped", "done"}
       => /\ in_dtz_domain(positions.fill)
          /\ \A i \in DOMAIN positions.at : in_dtz_domain(positions.at[i])
    /\ (pc = "evaluated" /\ result[2][1] = "Ok")
       => /\ in_dtz_domain(result[2][2])
          /\ in_dtz_domain(add_half_move(result[2][2]))
          /\ in_dtz_domain(flip(result[2][2]))
          /\ in_dtz_domain(max(flip(result[2][2]), flip(unknown)))

(***************************************************************************)
(* score.rs, wdl_table.rs: the conversions between DtzScoreRange and       *)
(* WdlScoreRange, applied to every pair of i8 bounds.                      *)
(***************************************************************************)
\* the values of an i8
I8 == -128 .. 127

InitScore ==
    /\ positions \in {<<Range(lo, hi)>> : lo \in I8, hi \in I8}
    /\ graph = <<>>
    /\ order = <<>>
    /\ it = 0
    /\ updates = 0
    /\ pc = "scores"
    /\ BuilderIdle
    /\ CodecIdle
    /\ KeyIdle

\* WdlTable::from(tb): every score of the builder projected, in order
IntoWdlTable ==
    /\ pc \in {"scores", "converted"}
    /\ result' = [i \in DOMAIN positions |-> WdlFromDtz(positions[i])]
    /\ pc' = IF \E i \in DOMAIN positions : WdlFromDtz(positions[i]) = ProjectionPanic
             THEN "panic"
             ELSE IF pc = "scores" THEN "table" ELSE "reprojected"
    /\ UNCHANGED <<key, text, index, file, solverVars, codecVars>>

\* DtzScoreRange::from(w) of the entry of a table
FromWdl ==
    /\ pc = "table"
    /\ index' = result[1]
    /\ positions' = <<DtzFromWdl(result[1])>>
    /\ pc' = "converted"
    /\ UNCHANGED <<graph, order, it, updates, builderVars, codecVars,
                   key, text, result, file>>

NextScore == IntoWdlTable \/ FromWdl

SpecScore == InitScore /\ [][NextScore]_vars

RECURSIVE n_choose_k_from(_, _, _, _)
n_choose_k_from(n, k, i, running) ==
    IF i > k THEN running
    ELSE n_choose_k_from(n, k, i + 1, (running * (n - (k - i))) \div i)

n_choose_k(n, k) ==
    IF k > n THEN 0
    ELSE n_choose_k_from(n, IF k <= n - k THEN k ELSE n - k, 1, 1)

\* the search that passes a candidate only when count < rank
RECURSIVE unrank_from_StrictCount(_, _, _, _, _, _)
unrank_from_StrictCount(n, k, rank, i, c, combo) ==
    IF i >= k THEN <<"Ok", combo>>
    ELSE IF n - c - 1 < 0 THEN <<"Panic">>
    ELSE LET count == n_choose_k(n - c - 1, k - i - 1)
         IN  IF count < rank
             THEN unrank_from_StrictCount(n, k, rank - count, i, c + 1, combo)
             ELSE unrank_from_StrictCount(n, k, rank, i + 1, c + 1, Append(combo, c))

unrank_combination_StrictCount(n, k, rank) ==
    unrank_from_StrictCount(n, k, rank, 0, 0, <<>>)

\* the loops of unrank_combination: element i is searched from candidate c
\* on; n - c - 1 is a usize, and the subtraction below zero is a panic
RECURSIVE unrank_from(_, _, _, _, _, _)
unrank_from(n, k, rank, i, c, combo) ==
    IF i >= k THEN <<"Ok", combo>>
    ELSE IF n - c - 1 < 0 THEN <<"Panic">>
    ELSE LET count == n_choose_k(n - c - 1, k - i - 1)
         IN  IF count <= rank
             THEN unrank_from(n, k, rank - count, i, c + 1, combo)
             ELSE unrank_from(n, k, rank, i + 1, c + 1, Append(combo, c))

unrank_combination(n, k, rank) == unrank_from(n, k, rank, 0, 0, <<>>)

\* the inner loop of rank_combination: the sum over j in start..c
RECURSIVE rank_skipped(_, _, _, _, _)
rank_skipped(n, k, i, j, c) ==
    IF j >= c THEN 0
    ELSE n_choose_k(n - j - 1, k - i - 1) + rank_skipped(n, k, i, j + 1, c)

\* the outer loop of rank_combination, from element i (numbered from 1)
RECURSIVE rank_from(_, _, _)
rank_from(n, indices, i) ==
    IF i > Len(indices) THEN 0
    ELSE rank_skipped(n, Len(indices), i - 1,
                      IF i = 1 THEN 0 ELSE indices[i - 1] + 1, indices[i])
         + rank_from(n, indices, i + 1)

rank_combination(n, indices) == rank_from(n, indices, 1)

\* the largest n of the combinations
MaxChoices == 8

\* the arguments are n and k in key and the rank in index
InitCombination ==
    /\ \E n \in 0 .. MaxChoices : \E k \in 0 .. n :
          /\ key = [n |-> n, k |-> k]
          /\ index \in 0 .. (n_choose_k(n, k) - 1)
    /\ text = <<>>
    /\ result = <<>>
    /\ file = <<>>
    /\ pc = "ranks"
    /\ SolverIdle
    /\ CodecIdle

\* unrank_combination(n, k, rank)
UnrankCombination ==
    /\ pc = "ranks"
    /\ result' = unrank_combination(key.n, key.k, index)
    /\ pc' = IF unrank_combination(key.n, key.k, index)[1] = "Ok"
             THEN "unranked" ELSE "panic"
    /\ UNCHANGED <<key, text, index, file, solverVars, codecVars>>

\* rank_combination(n, &combo) of the combination returned
RankCombination ==
    /\ pc = "unranked"
    /\ result' = <<"Ok", result[2], rank_combination(key.n, result[2])>>
    /\ pc' = "ranked"
    /\ UNCHANGED <<key, text, index, file, solverVars, codecVars>>

NextCombination == UnrankCombination \/ RankCombination

SpecCombination == InitCombination /\ [][NextCombination]_vars

\* C24: for all n, k with k <= n and every rank r < C(n,k),
\* unrank_combination(n, k, r) returns k strictly increasing indices below
\* n, and rank_combination(n, unrank_combination(n, k, r)) = r.
C24_UnrankThenRankIsTheRank ==
    /\ pc # "panic"
    /\ pc \in {"unranked", "ranked"}
       => /\ Len(result[2]) = key.k
          /\ \A i \in 1 .. key.k : result[2][i] \in 0 .. (key.n - 1)
          /\ \A i \in 1 .. (key.k - 1) : result[2][i] < result[2][i + 1]
    /\ pc = "ranked" => result[3] = index

\* the last of the 56 combinations of 3 out of 8 has the rank 55
C24_Witness ==
    /\ pc = "ranked"
    /\ key = [n |-> 8, k |-> 3]
    /\ index = 55
    /\ result = <<"Ok", <<5, 6, 7>>, 55>>

\* C25: a step never changes an entry that is certain (min = max) or
\* Illegal when it is visited, and never changes the length of the score
\* array: an entry that is certain or Illegal keeps its value in every later
\* iteration.
C25_CertainEntriesStay ==
    [][/\ DOMAIN positions' = DOMAIN positions
       /\ \A i \in DOMAIN positions :
             (\/ positions[i].min = positions[i].max
              \/ positions[i].min > 0 /\ positions[i].max < 0)
             => /\ visit(graph, positions, i).positions = positions
                /\ positions'[i] = positions[i]]_vars

\* a mate and the mate in one before it have been settled, and a later
\* iteration has visited both
C25_Witness ==
    /\ pc = "done"
    /\ it = 2
    /\ graph[1].kind = "checkmate"
    /\ positions[1] = checkmate
    /\ graph[0].kind = "normal"
    /\ positions[0].min = positions[0].max

\* index_to_position fails with one of the two errors of a placement
DecodingFails(material, i) ==
    index_to_position(material, i)
        \in {<<"Err", "InvalidPosition">>, <<"Err", "TwoPiecesOnSameSquare">>}

PawnMoved(c, sq, target) ==
    IF c = White
    THEN PawnStructure((key.pawns.white \ {sq}) \cup {target}, key.pawns.black)
    ELSE PawnStructure(key.pawns.white, (key.pawns.black \ {sq}) \cup {target})

\* the squares one step diagonally forward of sq for a pawn of color c
DiagonalTargets(c, sq) ==
    {t \in 0 .. 63 : /\ RankOf(t) = RankOf(sq) + (IF c = White THEN 1 ELSE -1)
                     /\ FileOf(t) \in {FileOf(sq) - 1, FileOf(sq) + 1}}

\* C27: for each color c, Black exactly as White, each pawn of c not on c's
\* seventh rank, and each capturable role of which the opponent has a piece,
\* the children contain the canonical key in which the pawn has moved one
\* square diagonally forward onto a pawn-free square and the opponent's count
\* of the role is one less, all other pawns and counts unchanged.
C27_PawnCapturesOfPieces ==
    pc = "children" =>
        \A c \in {White, Black} :
            LET own == IF c = White THEN key.pawns.white ELSE key.pawns.black
                seventh == IF c = White THEN 6 ELSE 1
                roles == {Queen, Rook, DarkBishop, LightBishop, Knight}
            IN  \A sq \in {x \in own : RankOf(x) # seventh} :
                \A t \in DiagonalTargets(c, sq) \ occupied(key.pawns) :
                \A r \in {x \in roles : key.counts[2 - c][x + 1] > 0} :
                    MaterialKey_new([key.counts EXCEPT ![2 - c][r + 1] = @ - 1],
                                    PawnMoved(c, sq, t)) \in result

\* C28: child_pawn_structures_no_piece_change generates a one-square push
\* only when the destination holds no pawn of either color, and a two-square
\* push only from the starting rank with the intermediate and the
\* destination square empty; every push successor has as many white pawns
\* and as many black pawns as the parent and no pawn on rank 1 or rank 8.
\* The pushes of Black are those of the flipped structure.
C28_PushesOntoEmptySquares ==
    pc = "children" =>
        \A ps \in {key.pawns, flip_sides(key.pawns)} :
            /\ \A sq \in can_be_moved_one_square(ps) : sq + 8 \notin occupied(ps)
            /\ \A sq \in can_be_moved_two_squares(ps) :
                  /\ RankOf(sq) = 1
                  /\ sq + 8 \notin occupied(ps)
                  /\ sq + 16 \notin occupied(ps)
            /\ \A child \in {pushed(ps, sq, 8) : sq \in can_be_moved_one_square(ps)}
                            \cup {pushed(ps, sq, 16) : sq \in can_be_moved_two_squares(ps)} :
                  /\ child \in child_pawn_structures_no_piece_change(ps)
                  /\ Cardinality(child.white) = Cardinality(ps.white)
                  /\ Cardinality(child.black) = Cardinality(ps.black)
                  /\ \A sq \in occupied(child) : RankOf(sq) \in 1 .. 6

\* C29: every solver step only narrows ranges: for each index whose entry is
\* not set to Illegal by the step, the new min is at least the old min and
\* the new max at most the old max, in every iteration of a solve started
\* from all-Unknown.
C29_StepsOnlyNarrow ==
    [][\A i \in DOMAIN positions :
          ~is_illegal(positions'[i])
          => /\ positions'[i].min >= positions[i].min
             /\ positions'[i].max <= positions[i].max]_vars

(***************************************************************************)
(* The solver over move graphs whose loaded child tables may hold          *)
(* IllegalPosition at the entry a capture or a promotion reads, followed   *)
(* by the projection of the solved scores to the WdlTable.                 *)
(***************************************************************************)
\* table[idx] of a loaded child table is any WdlScoreRange
CaptureMovesOfAnyTable ==
    CaptureMoves \cup {[child |-> "table", wdl |-> IllegalPosition]}

NodesOfAnyTableAt(i) ==
    NodesAt(i)
    \cup {[kind |-> "normal", quiet |-> q, caps |-> {m}] :
            q \in SUBSET OtherTurn(i),
            m \in CaptureMovesOfAnyTable \ CaptureMoves}

GraphsOfAnyTable ==
    {g \in [Indices -> UNION {NodesOfAnyTableAt(i) : i \in Indices}] :
        \A i \in Indices :
            /\ g[i] \in NodesOfAnyTableAt(i)
            /\ g[i].kind = "normal" => (g[i].quiet # {} \/ g[i].caps # {})
            /\ \A j \in g[i].quiet : g[j].kind # "invalid"}

InitAnyTable == \E g \in GraphsOfAnyTable : SolverInit(g, Ascending)

\* WdlTable::from(tb) after solve() has returned
IntoWdlTableAfterSolve ==
    /\ pc = "done"
    /\ result' = [i \in DOMAIN positions |-> WdlFromDtz(positions[i])]
    /\ pc' = IF \E i \in DOMAIN positions : WdlFromDtz(positions[i]) = ProjectionPanic
             THEN "projection panic" ELSE "table"
    /\ UNCHANGED <<key, text, index, file, solverVars, codecVars>>

NextAnyTable == Step \/ IntoWdlTableAfterSolve

SpecAnyTable == InitAnyTable /\ [][NextAnyTable]_vars

\* C30: every score the solver stores is the Illegal sentinel or has
\* min <= max, also when the score of a move is Illegal (read from a child
\* table or from the table itself) and is combined with the other moves by
\* the bound-wise max; the projection of the solved scores never meets the
\* sign combinations (+,0) and (0,-) and never panics.
C30_StoredScoresAreRangesOrIllegal ==
    /\ \A i \in DOMAIN positions :
          positions[i] = illegal \/ positions[i].min <= positions[i].max
    /\ pc # "projection panic"
    /\ pc = "table" => \A i \in DOMAIN result : result[i] \in WdlValues

====
